---- MODULE Spec2Model ----
(***************************************************************************)
(* A model of the RDM controller of esp_dmx: the request transaction       *)
(* (rdm_send_request), the port's send-mutex and transaction number, and   *)
(* the recursive binary-tree discovery (rdm_discover_devices,              *)
(* rdm_find_devices, rdm_quick_find).                                      *)
(***************************************************************************)
EXTENDS Integers, Sequences, FiniteSets, TLC

(***************************************************************************)
(* Bounds of the model.                                                    *)
(***************************************************************************)
\* Calls one task issues before it stops.
MaxCalls == 1

\* The responders on the line.
MaxResponders == 3

\* The answers the line may lose in one run.
MaxLost == 1

\* The entries of the array the caller of rdm_discover_devices passes.
MaxSize == 2

\* The calls made on the parameter table in one run.
MaxOps == 4

\* The symbols of a format string.
MaxFormat == 2

\* The frames of rdm_find_devices and rdm_quick_find the search may stack up.
MaxDepth == 12

\* The bytes of the parameter data area, and the calls of rdm_pd_alloc each
\* task makes.
MaxPd == 4
MaxAllocs == 2

\* The calls of rdm_uid_get each task makes.
MaxGets == 2

\* The calls of rdm_register_parameter and rdm_pd_find each task makes.
MaxRegs == 2

(***************************************************************************)
(* Protocol constants.                                                     *)
(***************************************************************************)
RDM_CC_DISC_COMMAND == 16
RDM_CC_GET_COMMAND == 32
RDM_CC_SET_COMMAND == 48
RDM_PID_DISC_UNIQUE_BRANCH == 1
RDM_PID_DISC_MUTE == 2
RDM_PID_DISC_UN_MUTE == 3
RDM_PID_DEVICE_INFO == 96
RDM_SUB_DEVICE_ALL == 65535
RDM_UID_MANUFACTURER_ID == 1504

\* A UID is man_id (16 bits) and dev_id (32 bits, kept as two 16-bit halves).
Uid(m, h, l) == [man_id |-> m, dev_hi |-> h, dev_lo |-> l]
NullUid == Uid(0, 0, 0)
RDM_UID_BROADCAST_ALL == Uid(65535, 65535, 65535)

rdm_uid_is_eq(a, b) ==
  a.man_id = b.man_id /\ a.dev_hi = b.dev_hi /\ a.dev_lo = b.dev_lo

rdm_uid_is_broadcast(uid) == uid.dev_hi = 65535 /\ uid.dev_lo = 65535

rdm_uid_is_null(uid) == uid.man_id = 0 /\ uid.dev_hi = 0 /\ uid.dev_lo = 0

rdm_uid_is_target(uid, alias) ==
  \/ /\ (alias.man_id = 65535 \/ alias.man_id = uid.man_id)
     /\ alias.dev_hi = 65535 /\ alias.dev_lo = 65535
  \/ rdm_uid_is_eq(uid, alias)

\* The bitwise operators of C on natural numbers.
RECURSIVE BitAnd(_, _)
BitAnd(a, b) ==
  IF a = 0 \/ b = 0 THEN 0
  ELSE (a % 2) * (b % 2) + 2 * BitAnd(a \div 2, b \div 2)

BitOr(a, b) == a + b - BitAnd(a, b)

BitXor(a, b) == a + b - 2 * BitAnd(a, b)

\* (a slip: the port number is XORed into the last octet)
PortUid_Xor(dmx_num, binding) ==
  [binding EXCEPT !.dev_lo =
     (binding.dev_lo - (binding.dev_lo % 256))
       + BitXor(binding.dev_lo % 256, dmx_num)]

\* The binding UID's last octet offset by the port number (8-bit addition).
PortUid(dmx_num, binding) ==
  [binding EXCEPT !.dev_lo =
     (binding.dev_lo - (binding.dev_lo % 256))
       + (((binding.dev_lo % 256) + dmx_num) % 256)]

(***************************************************************************)
(* The tasks, the port and the values requests and responses are drawn     *)
(* from.                                                                   *)
(***************************************************************************)
Tasks == {1, 2}
DMX_NUM == 1
MacDevId == <<4660, 22136>>

UidA == Uid(1, 0, 1)
UidB == Uid(2, 0, 7)
UidManBroadcast == Uid(1, 65535, 65535)

ResponseTypes == {"ACK", "ACK_TIMER", "NACK_REASON", "ACK_OVERFLOW"}

NoHeader ==
  [dest_uid |-> NullUid, src_uid |-> NullUid, tn |-> 0, port_id |-> 0,
   message_count |-> 0, sub_device |-> 0, cc |-> 0, pid |-> 0, pdl |-> 0]

NoAck ==
  [err |-> "UNSET", size |-> 0, src_uid |-> NullUid, message_count |-> 0,
   type |-> "UNSET", timer |-> 0]

NoResp ==
  [received |-> FALSE, decoded |-> FALSE, response_type |-> "NONE", cc |-> 0, pid |-> 0, tn |-> 0,
   dest_uid |-> NullUid, src_uid |-> NullUid, message_count |-> 0,
   pd |-> <<0, 0>>]

VARIABLES
  mux,              \* the port's recursive send-mutex: owner (0: free), count
  tn,               \* the port's transaction number
  sending,          \* a frame is still being transmitted
  buffer,           \* the frame buffer: the task and header last written
  wire,             \* the request frames placed on the wire, in order
  acquired,         \* how many times the mutex went from free to held
  rdm_binding_uid,  \* the process-wide binding UID
  pc, header, response_expected, ack, resp, ret, calls,
  supplied,         \* per task, the header as its caller passed it in
  steps,            \* per task, the driver calls its current request has made
  debug_discovery,  \* the build has CONFIG_RDM_DEBUG_DEVICE_DISCOVERY
  responders,       \* the UIDs of the responders on the line
  deaf,             \* the responders that never act on a DISC_MUTE
  muted,            \* the responders that are muted
  lost,             \* the answers the line has lost so far
  disc_pc,          \* where the discovery run is
  io,               \* the request the discovery run has in flight
  response,         \* the rdm_response_t and UID of its last request
  disc_params,      \* the rdm_disc_unique_branch_t the recursion shares
  stack,            \* the frames of rdm_find_devices and rdm_quick_find
  retval,           \* devices_remaining: what the last rdm_quick_find returned
  uids, size,       \* the caller's array (memory from uids on) and its size
  uids_null,        \* the caller passed uids = NULL
  found,            \* devices_found
  rdm_cbs,          \* driver->rdm_cbs and the memory behind it
  num_rdm_cbs,      \* driver->num_rdm_cbs
  pd_store,         \* the parameter storage the table's entries point to
  boot_loader,      \* DMX_FLAGS_DRIVER_BOOT_LOADER of driver->flags
  p_last,           \* the last call on the parameter table and its result
  p_ops,            \* the calls made on the parameter table
  lib_pc,           \* "call" before, "done" after a library function ran
  lib_in,           \* the arguments of the library function
  lib_out,          \* what it returned and wrote
  tpc,              \* per task, where its call of a library function is
  local,            \* per task, the arguments and locals of that call
  spinlock,         \* the task inside taskENTER_CRITICAL (0: none)
  pd_head,          \* driver->pd_head
  allocs            \* the regions rdm_pd_alloc has handed out, in order

discVars ==
  <<debug_discovery, responders, deaf, muted, lost, disc_pc, io, response,
    disc_params, stack, retval, uids, size, uids_null, found>>

paramVars == <<rdm_cbs, num_rdm_cbs, pd_store, boot_loader, p_last, p_ops>>

memVars == <<tpc, local, spinlock, pd_head, allocs>>

libVars == <<paramVars, lib_pc, lib_in, lib_out, memVars>>

vars ==
  <<mux, tn, sending, buffer, wire, acquired, rdm_binding_uid,
    pc, header, supplied, response_expected, ack, resp, ret, calls, steps, discVars,
    libVars>>

taskVars == <<pc, header, supplied, response_expected, ack, resp, ret, calls, steps>>

portVars ==
  <<mux, tn, sending, buffer, wire, acquired, rdm_binding_uid, taskVars,
    discVars>>

Did(t, step) == steps' = [steps EXCEPT ![t] = Append(@, step)]

(***************************************************************************)
(* The send-mutex (a FreeRTOS recursive mutex).                            *)
(***************************************************************************)
\* The take succeeds: the mutex is free, or the task holds it already.
MuxCanTake(t) == mux.owner = 0 \/ mux.owner = t

MuxTake(t) == [owner |-> t, count |-> mux.count + 1]

MuxGive(t) ==
  IF mux.owner # t THEN mux
  ELSE IF mux.count = 1 THEN [owner |-> 0, count |-> 0]
  ELSE [mux EXCEPT !.count = mux.count - 1]

Acquired(t) == IF mux.owner = 0 THEN acquired + 1 ELSE acquired


(***************************************************************************)
(* rdm_send_request: the pure parts.                                       *)
(***************************************************************************)
\* (a slip: the payload length is not asserted)
HeaderIsValid_AnyPdl(h) ==
  /\ ~rdm_uid_is_null(h.dest_uid)
  /\ ~rdm_uid_is_broadcast(h.src_uid)
  /\ h.cc \in {RDM_CC_DISC_COMMAND, RDM_CC_GET_COMMAND, RDM_CC_SET_COMMAND}
  /\ \/ h.sub_device < 513
     \/ (h.sub_device = RDM_SUB_DEVICE_ALL /\ h.cc # RDM_CC_GET_COMMAND)

\* The assertions on the caller's header.
HeaderIsValid(h) ==
  /\ ~rdm_uid_is_null(h.dest_uid)
  /\ ~rdm_uid_is_broadcast(h.src_uid)
  /\ h.cc \in {RDM_CC_DISC_COMMAND, RDM_CC_GET_COMMAND, RDM_CC_SET_COMMAND}
  /\ \/ h.sub_device < 513
     \/ (h.sub_device = RDM_SUB_DEVICE_ALL /\ h.cc # RDM_CC_GET_COMMAND)
  /\ h.pdl <= 231

\* The binding UID after rdm_uid_get has run: initialised from the MAC if null.
BindingAfterGet(binding) ==
  IF rdm_uid_is_null(binding)
  THEN Uid(RDM_UID_MANUFACTURER_ID, MacDevId[1], MacDevId[2])
  ELSE binding

\* (a slip: the source UID and the port id are set whatever the caller gave)
FillHeader_Overwrites(h, dmx_num, binding, port_tn) ==
  [h EXCEPT
     !.port_id = dmx_num + 1,
     !.src_uid = PortUid(dmx_num, BindingAfterGet(binding)),
     !.tn = port_tn,
     !.message_count = 0]

\* The header as rdm_send_request completes it before taking the mutex.
FillHeader(h, dmx_num, binding, port_tn) ==
  [h EXCEPT
     !.port_id = IF h.port_id = 0 THEN dmx_num + 1 ELSE h.port_id,
     !.src_uid = IF rdm_uid_is_null(h.src_uid)
                 THEN PortUid(dmx_num, BindingAfterGet(binding))
                 ELSE h.src_uid,
     !.tn = port_tn,
     !.message_count = 0]

IsDiscUniqueBranch(h) ==
  h.pid = RDM_PID_DISC_UNIQUE_BRANCH /\ h.cc = RDM_CC_DISC_COMMAND

\* (a slip: DISC_UNIQUE_BRANCH is not excepted)
ResponseExpected_Unicast(h) == ~rdm_uid_is_broadcast(h.dest_uid)

ResponseExpected(h) ==
  ~rdm_uid_is_broadcast(h.dest_uid) \/ IsDiscUniqueBranch(h)

\* The response type rdm_send_request reports for response r to request h.
ClassifyResponse(h, r) ==
  IF ~r.decoded THEN "INVALID"
  ELSE IF r.response_type \notin ResponseTypes THEN "INVALID"
  ELSE IF /\ h.pid # RDM_PID_DISC_UNIQUE_BRANCH
          /\ \/ h.cc # r.cc - 1
             \/ h.pid # r.pid
             \/ h.tn # r.tn
             \/ ~rdm_uid_is_target(r.src_uid, h.dest_uid)
             \/ ~rdm_uid_is_eq(r.dest_uid, h.src_uid)
       THEN "INVALID"
  ELSE r.response_type

\* pdMS_TO_TICKS of FreeRTOS: milliseconds in ticks of configTICK_RATE_HZ.
configTICK_RATE_HZ == 100
pdMS_TO_TICKS(ms) == (ms * configTICK_RATE_HZ) \div 1000

\* The uint16_t that the little-endian host reads at pd_out, and bswap16.
HostWord(pd) == pd[1] + 256 * pd[2]
bswap16(x) == (x % 256) * 256 + ((x \div 256) % 256)

\* (a slip: the responder's count of 10 ms units is taken for milliseconds)
Decoded_Unscaled(response_type, pd) ==
  IF response_type = "ACK_TIMER"
  THEN pdMS_TO_TICKS(bswap16(HostWord(pd)))
  ELSE IF response_type = "NACK_REASON"
  THEN bswap16(HostWord(pd))
  ELSE 0

\* decoded: what rdm_send_request stores in the union of ack.timer and
\* ack.nack_reason for the response type it settled on.
Decoded(response_type, pd) ==
  IF response_type = "ACK_TIMER"
  THEN pdMS_TO_TICKS(bswap16(HostWord(pd)) * 10)
  ELSE IF response_type = "NACK_REASON"
  THEN bswap16(HostWord(pd))
  ELSE 0

(***************************************************************************)
(* What the callers and the line may supply.                               *)
(***************************************************************************)
FullHeaders ==
  { [NoHeader EXCEPT !.dest_uid = d, !.src_uid = s, !.cc = c, !.pid = p] :
      d \in {UidA, RDM_UID_BROADCAST_ALL, UidManBroadcast},
      s \in {NullUid, UidB},
      c \in {RDM_CC_DISC_COMMAND, RDM_CC_GET_COMMAND, RDM_CC_SET_COMMAND},
      p \in {RDM_PID_DISC_UNIQUE_BRANCH, RDM_PID_DEVICE_INFO} }

\* Headers at the limits of what the assertions admit, the first one with
\* every optional field set, as a caller reusing a header leaves it.
EdgeHeader ==
  [NoHeader EXCEPT !.dest_uid = UidA, !.cc = RDM_CC_SET_COMMAND,
                   !.pid = RDM_PID_DEVICE_INFO]
EdgeHeaders ==
  { [EdgeHeader EXCEPT !.src_uid = UidB, !.port_id = 7, !.tn = 9,
                       !.message_count = 3, !.sub_device = 512, !.pdl = 231],
    [EdgeHeader EXCEPT !.sub_device = RDM_SUB_DEVICE_ALL] }

\* Headers that fail one assertion each.
InvalidHeaders ==
  { [EdgeHeader EXCEPT !.dest_uid = NullUid],
    [EdgeHeader EXCEPT !.src_uid = RDM_UID_BROADCAST_ALL],
    [EdgeHeader EXCEPT !.src_uid = UidManBroadcast],
    [EdgeHeader EXCEPT !.cc = RDM_CC_GET_COMMAND + 1],
    [EdgeHeader EXCEPT !.sub_device = 513],
    [EdgeHeader EXCEPT !.sub_device = RDM_SUB_DEVICE_ALL,
                       !.cc = RDM_CC_GET_COMMAND],
    [EdgeHeader EXCEPT !.pdl = 232] }

CallerHeaders == FullHeaders \cup EdgeHeaders \cup InvalidHeaders

PlainHeaders ==
  { [NoHeader EXCEPT !.dest_uid = d, !.cc = RDM_CC_GET_COMMAND,
                     !.pid = RDM_PID_DEVICE_INFO] :
      d \in {UidA, RDM_UID_BROADCAST_ALL} }

\* dmx_receive: the error it reports and the size it returns.
ReceiveOutcomes ==
  [err : {"DMX_OK", "DMX_ERR_TIMEOUT", "DMX_ERR_DATA"}, size : {0, 26}]

\* The two bytes of parameter data a response carries into pd_out: 50 and
\* 300, most significant byte first.
Payloads == {<<0, 50>>, <<1, 44>>}

\* dmx_read_rdm: whether the frame decoded, the header it holds (a frame
\* that does not decode leaves no header to speak of) and the parameter data
\* it copied to pd_out.
Responses(h, full) ==
  IF full
  THEN {[NoResp EXCEPT !.received = TRUE]} \cup
       [received : {TRUE}, decoded : {TRUE},
        response_type : ResponseTypes \cup {"OTHER"},
        cc : {h.cc + 1, h.cc},
        pid : {h.pid, RDM_PID_DISC_MUTE},
        tn : {h.tn, (h.tn + 255) % 256},
        dest_uid : {h.src_uid, UidA},
        src_uid : {h.dest_uid, UidB},
        message_count : {0},
        pd : {<<0, 50>>}] \cup
       [received : {TRUE}, decoded : {TRUE},
        response_type : {"ACK_TIMER", "NACK_REASON"},
        cc : {h.cc + 1},
        pid : {h.pid},
        tn : {h.tn},
        dest_uid : {h.src_uid},
        src_uid : {h.dest_uid},
        message_count : {0},
        pd : Payloads]
  ELSE [received : {TRUE}, decoded : {TRUE},
        response_type : {"ACK", "NACK_REASON"},
        cc : {h.cc + 1},
        pid : {h.pid},
        tn : {h.tn, (h.tn + 255) % 256},
        dest_uid : {h.src_uid},
        src_uid : {h.dest_uid},
        message_count : {0},
        pd : {<<0, 50>>}]

(***************************************************************************)
(* rdm_send_request, one action per step of task t.                        *)
(***************************************************************************)
\* Entry: the assertions, the header defaults, the transaction number.  A
\* failed assertion aborts the program: the task makes no further step.
RequestCall(t, H) ==
  /\ pc[t] = "idle"
  /\ calls[t] > 0
  /\ \E h \in H :
       /\ supplied' = [supplied EXCEPT ![t] = h]
       /\ IF HeaderIsValid(h)
          THEN /\ header' = [header EXCEPT
                    ![t] = FillHeader(h, DMX_NUM, rdm_binding_uid, tn)]
               /\ response_expected' = [response_expected EXCEPT
                    ![t] = ResponseExpected(h)]
               /\ rdm_binding_uid' =
                    IF rdm_uid_is_null(h.src_uid)
                    THEN BindingAfterGet(rdm_binding_uid) ELSE rdm_binding_uid
               /\ pc' = [pc EXCEPT ![t] = "take"]
          ELSE /\ pc' = [pc EXCEPT ![t] = "aborted"]
               /\ UNCHANGED <<header, response_expected, rdm_binding_uid>>
  /\ calls' = [calls EXCEPT ![t] = @ - 1]
  /\ ack' = [ack EXCEPT ![t] = NoAck]
  /\ resp' = [resp EXCEPT ![t] = NoResp]
  /\ ret' = [ret EXCEPT ![t] = "none"]
  /\ steps' = [steps EXCEPT ![t] = <<>>]
  /\ UNCHANGED <<mux, tn, sending, buffer, wire, acquired, discVars, libVars>>

\* (a slip: the result of the take is ignored)
RequestTake_Unchecked(t) ==
  /\ pc[t] = "take"
  /\ mux' = IF MuxCanTake(t) THEN MuxTake(t) ELSE mux
  /\ acquired' = IF MuxCanTake(t) THEN Acquired(t) ELSE acquired
  /\ pc' = [pc EXCEPT ![t] = "wait_sent"]
  /\ Did(t, "take")
  /\ UNCHANGED <<tn, sending, buffer, wire, rdm_binding_uid,
                 header, supplied, response_expected, ack, resp, ret, calls, discVars, libVars>>

\* xSemaphoreTakeRecursive(driver->mux, 0)
RequestTake(t) ==
  /\ pc[t] = "take"
  /\ IF MuxCanTake(t)
     THEN /\ mux' = MuxTake(t)
          /\ acquired' = Acquired(t)
          /\ pc' = [pc EXCEPT ![t] = "wait_sent"]
          /\ Did(t, "take")
          /\ UNCHANGED ret
     ELSE /\ ret' = [ret EXCEPT ![t] = "false"]
          /\ pc' = [pc EXCEPT ![t] = "done"]
          /\ Did(t, "take_failed")
          /\ UNCHANGED <<mux, acquired>>
  /\ UNCHANGED <<tn, sending, buffer, wire, rdm_binding_uid,
                 header, supplied, response_expected, ack, resp, calls, discVars, libVars>>

\* (a slip: the result of the wait is ignored)
RequestWaitSent_Ignored(t) ==
  /\ pc[t] = "wait_sent"
  /\ Did(t, "wait_sent")
  /\ sending' \in {sending, FALSE}
  /\ pc' = [pc EXCEPT ![t] = "write"]
  /\ UNCHANGED <<mux, ret, tn, buffer, wire, acquired, rdm_binding_uid,
                 header, supplied, response_expected, ack, resp, calls,
                 discVars, libVars>>

\* dmx_wait_sent(dmx_num, 30 ms): the frame drains in time, or it does not.
RequestWaitSent(t) ==
  /\ pc[t] = "wait_sent"
  /\ Did(t, "wait_sent")
  /\ \/ /\ sending' = FALSE
        /\ pc' = [pc EXCEPT ![t] = "write"]
        /\ UNCHANGED <<mux, ret>>
     \/ /\ sending
        /\ mux' = MuxGive(t)
        /\ ret' = [ret EXCEPT ![t] = "false"]
        /\ pc' = [pc EXCEPT ![t] = "done"]
        /\ UNCHANGED sending
  /\ UNCHANGED <<tn, buffer, wire, acquired, rdm_binding_uid,
                 header, supplied, response_expected, ack, resp, calls, discVars, libVars>>

\* dmx_write_rdm(dmx_num, header, pd_in)
RequestWrite(t) ==
  /\ pc[t] = "write"
  /\ buffer' = [task |-> t, hdr |-> header[t], pd |-> <<>>]
  /\ Did(t, "write")
  /\ pc' = [pc EXCEPT ![t] = "send"]
  /\ UNCHANGED <<mux, tn, sending, wire, acquired, rdm_binding_uid,
                 header, supplied, response_expected, ack, resp, ret, calls, discVars, libVars>>

\* What the model keeps of a request frame on the wire: the task that wrote it,
\* the task that sent it, the mutex acquisition it was sent under, and the
\* header fields that identify the request.
Frame(writer, sender, acq, h, pd) ==
  [task |-> writer, by |-> sender, acq |-> acq, tn |-> h.tn, cc |-> h.cc,
   pid |-> h.pid, dest_uid |-> h.dest_uid, pd |-> pd]

\* The port's transaction number after a request frame went out.
NextTn(n) == (n + 1) % 256

\* dmx_send(dmx_num, size): the frame in the buffer goes on the wire.
DmxSend(t) ==
  /\ wire' = Append(wire, Frame(buffer.task, t, acquired, buffer.hdr, buffer.pd))
  /\ tn' = NextTn(tn)
  /\ sending' = TRUE

\* (a slip: the mutex is given back once the request is sent)
RequestSend_GivesEarly(t) ==
  /\ pc[t] = "send"
  /\ DmxSend(t)
  /\ Did(t, "send")
  /\ mux' = MuxGive(t)
  /\ pc' = [pc EXCEPT ![t] =
       IF response_expected[t] THEN "receive" ELSE "no_response"]
  /\ UNCHANGED <<buffer, acquired, rdm_binding_uid,
                 header, supplied, response_expected, ack, resp, ret, calls, discVars, libVars>>

\* dmx_send(dmx_num, 0) of rdm_send_request.
RequestSend(t) ==
  /\ pc[t] = "send"
  /\ DmxSend(t)
  /\ Did(t, "send")
  /\ pc' = [pc EXCEPT ![t] =
       IF response_expected[t] THEN "receive" ELSE "no_response"]
  /\ UNCHANGED <<mux, buffer, acquired, rdm_binding_uid,
                 header, supplied, response_expected, ack, resp, ret, calls, discVars, libVars>>

\* (a slip: the size is looked at before the error)
EarlyReturn_SizeFirst(packet) ==
  IF packet.size = 0 THEN "NONE"
  ELSE IF packet.err # "DMX_OK" /\ packet.err # "DMX_ERR_TIMEOUT"
  THEN "INVALID"
  ELSE "READ"

\* What rdm_send_request does with the packet dmx_receive reported: return
\* early with ack.type INVALID or NONE, or go on to read the response.
EarlyReturn(packet) ==
  IF packet.err # "DMX_OK" /\ packet.err # "DMX_ERR_TIMEOUT"
  THEN "INVALID"
  ELSE IF packet.size = 0 THEN "NONE"
  ELSE "READ"

\* dmx_receive(dmx_num, &packet, 10) and the early returns that follow it.
RequestReceive(t) ==
  /\ pc[t] = "receive"
  /\ Did(t, "receive")
  /\ sending' = FALSE
  /\ \E packet \in ReceiveOutcomes :
       IF EarlyReturn(packet) # "READ"
       THEN /\ ack' = [ack EXCEPT ![t] =
                 [err |-> packet.err, size |-> packet.size,
                  src_uid |-> NullUid, message_count |-> 0,
                  type |-> EarlyReturn(packet), timer |-> ack[t].timer]]
            /\ mux' = MuxGive(t)
            /\ ret' = [ret EXCEPT ![t] = "false"]
            /\ pc' = [pc EXCEPT ![t] = "done"]
       ELSE /\ ack' = [ack EXCEPT ![t].err = packet.err,
                                  ![t].size = packet.size]
            /\ pc' = [pc EXCEPT ![t] = "read"]
            /\ UNCHANGED <<mux, ret>>
  /\ UNCHANGED <<tn, buffer, wire, acquired, rdm_binding_uid,
                 header, supplied, response_expected, resp, calls, discVars, libVars>>

\* No response is expected: dmx_wait_sent(dmx_num, 2), which may time out.
RequestNoResponse(t) ==
  /\ pc[t] = "no_response"
  /\ Did(t, "wait_sent")
  /\ ack' = [ack EXCEPT ![t] =
       [err |-> "DMX_OK", size |-> 26, src_uid |-> NullUid,
        message_count |-> 0, type |-> "NONE", timer |-> ack[t].timer]]
  /\ sending' \in {sending, FALSE}
  /\ mux' = MuxGive(t)
  /\ ret' = [ret EXCEPT ![t] = "false"]
  /\ pc' = [pc EXCEPT ![t] = "done"]
  /\ UNCHANGED <<tn, buffer, wire, acquired, rdm_binding_uid,
                 header, supplied, response_expected, resp, calls, discVars, libVars>>

\* (a slip: every valid response type counts as success)
ReturnValue_AnyValid(response_type) ==
  IF response_type # "INVALID" THEN "true" ELSE "false"

\* The value rdm_send_request returns for the response type it settled on.
ReturnValue(response_type) ==
  IF response_type = "ACK" THEN "true" ELSE "false"

\* dmx_read_rdm, the validation of the response, the report to the caller.
RequestRead(t, full) ==
  /\ pc[t] = "read"
  /\ Did(t, "read")
  /\ \E r \in Responses(header[t], full) :
       LET response_type == ClassifyResponse(header[t], r) IN
       /\ resp' = [resp EXCEPT ![t] = r]
       /\ ack' = [ack EXCEPT ![t].type = response_type,
                             ![t].src_uid = r.src_uid,
                             ![t].message_count = r.message_count,
                             ![t].timer = Decoded(response_type, r.pd)]
       /\ ret' = [ret EXCEPT ![t] = ReturnValue(response_type)]
  /\ mux' = MuxGive(t)
  /\ pc' = [pc EXCEPT ![t] = "done"]
  /\ UNCHANGED <<tn, sending, buffer, wire, acquired, rdm_binding_uid,
                 header, supplied, response_expected, calls, discVars, libVars>>

\* The call has returned; the task goes on.
RequestReturn(t) ==
  /\ pc[t] = "done"
  /\ pc' = [pc EXCEPT ![t] = "idle"]
  /\ header' = [header EXCEPT ![t] = NoHeader]
  /\ supplied' = [supplied EXCEPT ![t] = NoHeader]
  /\ response_expected' = [response_expected EXCEPT ![t] = FALSE]
  /\ ack' = [ack EXCEPT ![t] = NoAck]
  /\ resp' = [resp EXCEPT ![t] = NoResp]
  /\ ret' = [ret EXCEPT ![t] = "none"]
  /\ steps' = [steps EXCEPT ![t] = <<>>]
  /\ UNCHANGED <<mux, tn, sending, buffer, wire, acquired, rdm_binding_uid,
                 calls, discVars, libVars>>

\* The UART finishes transmitting the frame.
TxDone ==
  /\ sending
  /\ sending' = FALSE
  /\ UNCHANGED <<mux, tn, buffer, wire, acquired, rdm_binding_uid, taskVars, libVars,
                 discVars>>

(***************************************************************************)
(* rdm_send, the older request function: one action per step of task t.    *)
(* header[t] is req, the copy of the request header that rdm_send compares *)
(* the response with; resp[t] is what rdm_read left in the header.         *)
(***************************************************************************)
\* The checks on the caller's header; rdm_send returns 0 when one fails.
SendHeaderIsValid(h) ==
  /\ ~rdm_uid_is_null(h.dest_uid)
  /\ h.cc \in {RDM_CC_DISC_COMMAND, RDM_CC_GET_COMMAND, RDM_CC_SET_COMMAND}
  /\ h.pid # 0 /\ h.pid <= 65535
  /\ h.sub_device <= 512 \/ h.sub_device = RDM_SUB_DEVICE_ALL
  /\ ~(h.sub_device = RDM_SUB_DEVICE_ALL /\ h.cc = RDM_CC_GET_COMMAND)
  /\ ~rdm_uid_is_broadcast(h.src_uid)
  /\ h.port_id >= 0 /\ h.port_id <= 255

\* The header as rdm_send completes it: the transaction number is always 0.
SendFillHeader(h, dmx_num, binding) ==
  [h EXCEPT
     !.src_uid = IF rdm_uid_is_null(h.src_uid)
                 THEN PortUid(dmx_num, BindingAfterGet(binding))
                 ELSE h.src_uid,
     !.port_id = IF h.port_id = 0 THEN dmx_num + 1 ELSE h.port_id,
     !.message_count = 0,
     !.tn = 0]

\* err: what rdm_send makes of a received packet; the response echoes the
\* sub-device of the request.
SendErr(req, is_rdm, r) ==
  IF ~is_rdm THEN "ESP_ERR_INVALID_RESPONSE"
  ELSE IF ~r.decoded THEN "ESP_ERR_INVALID_RESPONSE"
  ELSE IF r.response_type \notin ResponseTypes
  THEN "ESP_ERR_INVALID_RESPONSE"
  ELSE IF /\ ~IsDiscUniqueBranch(req)
          /\ \/ req.cc # BitAnd(r.cc, 1)
             \/ req.pid # r.pid
             \/ req.tn # r.tn
             \/ req.dest_uid # r.src_uid
             \/ req.src_uid # r.src_uid
  THEN "ESP_ERR_INVALID_RESPONSE"
  ELSE "ESP_OK"

\* rdm_decode_16bit of one parameter: the word, most significant byte first.
rdm_decode_16bit(pd) == pd[1] * 256 + pd[2]

\* The rdm_ack_t that rdm_send reports for a received packet; no decoder is
\* passed, so an ACK leaves decoded 0.
SendAck(req, is_rdm, r) ==
  LET err == SendErr(req, is_rdm, r) IN
  IF err # "ESP_OK" THEN [err |-> err, type |-> "NONE", num |-> 0]
  ELSE IF r.response_type = "ACK_TIMER"
  THEN [err |-> err, type |-> "ACK_TIMER",
        num |-> pdMS_TO_TICKS(rdm_decode_16bit(r.pd) * 10)]
  ELSE IF r.response_type = "NACK_REASON"
  THEN [err |-> err, type |-> "NACK_REASON", num |-> rdm_decode_16bit(r.pd)]
  ELSE IF r.response_type = "ACK_OVERFLOW"
  THEN [err |-> "ESP_ERR_NOT_SUPPORTED", type |-> "ACK_OVERFLOW", num |-> 0]
  ELSE [err |-> err, type |-> "ACK", num |-> 0]

\* Entry: the checks and the header defaults.
SendCall(t, H) ==
  /\ pc[t] = "idle"
  /\ calls[t] > 0
  /\ \E h \in H :
       /\ supplied' = [supplied EXCEPT ![t] = h]
       /\ IF SendHeaderIsValid(h)
          THEN /\ header' = [header EXCEPT
                    ![t] = SendFillHeader(h, DMX_NUM, rdm_binding_uid)]
               /\ response_expected' = [response_expected EXCEPT
                    ![t] = ResponseExpected(h)]
               /\ rdm_binding_uid' =
                    IF rdm_uid_is_null(h.src_uid)
                    THEN BindingAfterGet(rdm_binding_uid) ELSE rdm_binding_uid
               /\ pc' = [pc EXCEPT ![t] = "s_take"]
               /\ ret' = [ret EXCEPT ![t] = "none"]
          ELSE /\ pc' = [pc EXCEPT ![t] = "done"]
               /\ ret' = [ret EXCEPT ![t] = 0]
               /\ UNCHANGED <<header, response_expected, rdm_binding_uid>>
  /\ calls' = [calls EXCEPT ![t] = @ - 1]
  /\ ack' = [ack EXCEPT ![t] = NoAck]
  /\ resp' = [resp EXCEPT ![t] = NoResp]
  /\ steps' = [steps EXCEPT ![t] = <<>>]
  /\ UNCHANGED <<mux, tn, sending, buffer, wire, acquired, discVars, libVars>>

\* xSemaphoreTakeRecursive(driver->mux, portMAX_DELAY): waits for the mutex.
SendTake(t) ==
  /\ pc[t] = "s_take"
  /\ MuxCanTake(t)
  /\ mux' = MuxTake(t)
  /\ acquired' = Acquired(t)
  /\ pc' = [pc EXCEPT ![t] = "s_wait_sent"]
  /\ Did(t, "take")
  /\ UNCHANGED <<tn, sending, buffer, wire, rdm_binding_uid, header, supplied,
                 response_expected, ack, resp, ret, calls, discVars, libVars>>

\* dmx_wait_sent(dmx_num, portMAX_DELAY): waits for the frame to drain.
SendWaitSent(t) ==
  /\ pc[t] = "s_wait_sent"
  /\ ~sending
  /\ pc' = [pc EXCEPT ![t] = "s_write"]
  /\ Did(t, "wait_sent")
  /\ UNCHANGED <<mux, tn, sending, buffer, wire, acquired, rdm_binding_uid,
                 header, supplied, response_expected, ack, resp, ret, calls,
                 discVars, libVars>>

\* rdm_write(dmx_num, header, &mdb)
SendWrite(t) ==
  /\ pc[t] = "s_write"
  /\ buffer' = [task |-> t, hdr |-> header[t], pd |-> <<>>]
  /\ pc' = [pc EXCEPT ![t] = "s_send"]
  /\ Did(t, "write")
  /\ UNCHANGED <<mux, tn, sending, wire, acquired, rdm_binding_uid,
                 header, supplied, response_expected, ack, resp, ret, calls,
                 discVars, libVars>>

\* dmx_send(dmx_num, packet_size)
SendSend(t) ==
  /\ pc[t] = "s_send"
  /\ DmxSend(t)
  /\ Did(t, "send")
  /\ pc' = [pc EXCEPT ![t] =
       IF response_expected[t] THEN "s_receive" ELSE "s_no_response"]
  /\ UNCHANGED <<mux, buffer, acquired, rdm_binding_uid,
                 header, supplied, response_expected, ack, resp, ret, calls,
                 discVars, libVars>>

\* dmx_receive(dmx_num, &packet, 2) and what follows it: the return on an
\* error, which leaves the mutex with the task, the processing of the
\* response, or the wait for the request to go out.
SendReceive(t) ==
  /\ pc[t] = "s_receive"
  /\ Did(t, "receive")
  /\ sending' = FALSE
  /\ \E packet \in ReceiveOutcomes :
       /\ ret' = [ret EXCEPT ![t] = packet.size]
       /\ IF packet.err # "DMX_OK"
          THEN /\ ack' = [ack EXCEPT ![t] =
                    [err |-> packet.err, type |-> "NONE", num |-> 0]]
               /\ UNCHANGED <<mux, resp>>
          ELSE IF packet.size > 0
          THEN /\ \/ /\ resp' = [resp EXCEPT ![t].received = TRUE]
                     /\ ack' = [ack EXCEPT ![t] =
                          SendAck(header[t], FALSE, resp[t])]
                  \/ \E r \in Responses(header[t], TRUE) :
                       /\ resp' = [resp EXCEPT ![t] = r]
                       /\ ack' = [ack EXCEPT ![t] =
                            SendAck(header[t], TRUE, r)]
               /\ mux' = MuxGive(t)
          ELSE /\ ack' = [ack EXCEPT ![t] =
                    [err |-> "ESP_OK", type |-> "NONE", num |-> 0]]
               /\ mux' = MuxGive(t)
               /\ UNCHANGED resp
  /\ pc' = [pc EXCEPT ![t] = "done"]
  /\ UNCHANGED <<tn, buffer, wire, acquired, rdm_binding_uid, header,
                 supplied, response_expected, calls, discVars, libVars>>

\* No response is expected: packet stays zeroed, the task waits for the
\* request to go out (dmx_wait_sent(dmx_num, 2), which may time out).
SendNoResponse(t) ==
  /\ pc[t] = "s_no_response"
  /\ Did(t, "wait_sent")
  /\ ack' = [ack EXCEPT ![t] =
       [err |-> "ESP_OK", type |-> "NONE", num |-> 0]]
  /\ sending' \in {sending, FALSE}
  /\ mux' = MuxGive(t)
  /\ ret' = [ret EXCEPT ![t] = 26]
  /\ pc' = [pc EXCEPT ![t] = "done"]
  /\ UNCHANGED <<tn, buffer, wire, acquired, rdm_binding_uid, header,
                 supplied, response_expected, resp, calls, discVars, libVars>>

(***************************************************************************)
(* Device discovery: rdm_discover_devices, rdm_dev_disc_task,              *)
(* rdm_find_devices and rdm_quick_find, with the requests they send        *)
(* (rdm_send_disc_unique_branch, rdm_send_disc_mute).  This API holds a    *)
(* UID in one integer.  The model scales the 48-bit UID down to two octets *)
(* of two bits each, so that the whole search space can be enumerated; the *)
(* top bit of a responder's UID is clear, as in RDM_MAX_UID.               *)
(***************************************************************************)
OctetSpan == 4
RDM_MAX_UID == 7
RDM_BROADCAST_UID == 15

\* The bits of the space the search starts from, [0, RDM_MAX_UID].
UidBits == 3

\* The task rdm_discover_devices creates.
DiscTask == 3

\* bswap64(uid) >> 16: the octets of the UID in reverse order.
FlipUid(uid) == (uid % OctetSpan) * OctetSpan + (uid \div OctetSpan)

\* The requests the discovery sends.
NoIo == [stage |-> "none", pid |-> 0, uid |-> 0, lo |-> 0, hi |-> 0]
IoMute(uid, unmute) ==
  [stage |-> "write",
   pid |-> IF unmute THEN RDM_PID_DISC_UN_MUTE ELSE RDM_PID_DISC_MUTE,
   uid |-> uid, lo |-> 0, hi |-> 0]
IoDub(params) ==
  [stage |-> "write", pid |-> RDM_PID_DISC_UNIQUE_BRANCH,
   uid |-> RDM_BROADCAST_UID, lo |-> params.lower_bound,
   hi |-> params.upper_bound]

\* The header rdm_send_disc_unique_branch and rdm_send_disc_mute write.
DiscHeader(r, port_tn) ==
  [NoHeader EXCEPT !.dest_uid = r.uid, !.tn = port_tn,
                   !.cc = RDM_CC_DISC_COMMAND, !.pid = r.pid,
                   !.pdl = IF r.pid = RDM_PID_DISC_UNIQUE_BRANCH
                           THEN 12 ELSE 0]
DiscPd(r) ==
  IF r.pid = RDM_PID_DISC_UNIQUE_BRANCH THEN <<r.lo, r.hi>> ELSE <<>>

\* rdm_response_t, with the UID or binding UID the request hands back.
NoResponse == [size |-> 0, err |-> "RDM_FAIL", uid |-> 0]

\* The responders that answer a DISC_UNIQUE_BRANCH for [lo, hi].
InBranch(lo, hi) == {u \in responders \ muted : lo <= u /\ u <= hi}

\* What the controller reads when the responders of set A answer a
\* DISC_UNIQUE_BRANCH at once: nothing, one response, or a collision whose
\* bytes fail the checksum.
DubResponse(A) ==
  IF A = {} THEN NoResponse
  ELSE IF Cardinality(A) = 1
  THEN [size |-> 24, err |-> "RDM_OK", uid |-> CHOOSE u \in A : TRUE]
  ELSE [size |-> 24, err |-> "RDM_INVALID_CHECKSUM", uid |-> 0]

\* The binding UID a responder reports in its response to a DISC_MUTE: the
\* responder at the top of the space is the second port of a device whose
\* first port has the UID below it; the others report none (their response
\* has the control field only, and binding_uid is set to 0).
BindingUid(uid) == IF uid = RDM_MAX_UID THEN RDM_MAX_UID - 1 ELSE 0

\* The response to a DISC_MUTE from the responder it addresses.
MuteResponse(uid) ==
  [size |-> 26, err |-> "RDM_OK", uid |-> BindingUid(uid)]

\* What rdm_disc_mute_t.binding_uid, a local nobody has written, may hold.
StaleUids == {0, RDM_BROADCAST_UID}

\* A response to a DISC_MUTE that arrives damaged: bytes were received
\* (response->size > 0) with a receive error or a failed validation, and
\* mute_params is left as it was.
DamagedMute(stale) ==
  [size |-> 26, err |-> "RDM_INVALID_CHECKSUM", uid |-> stale]

\* The xSemaphoreTakeRecursive(mutex, portMAX_DELAY), the
\* dmx_wait_sent(dmx_num, portMAX_DELAY) and the dmx_write of a request.
DiscWrite ==
  /\ io.stage = "write"
  /\ MuxCanTake(DiscTask)
  /\ ~sending
  /\ mux' = MuxTake(DiscTask)
  /\ acquired' = Acquired(DiscTask)
  /\ buffer' = [task |-> DiscTask, hdr |-> DiscHeader(io, tn), pd |-> DiscPd(io)]
  /\ io' = [io EXCEPT !.stage = "send"]
  /\ UNCHANGED <<tn, sending, wire, rdm_binding_uid, taskVars, libVars, debug_discovery, responders, deaf,
                 muted, lost, disc_pc, response, disc_params, stack, retval,
                 uids, size, uids_null, found>>

\* The dmx_send of a request.
DiscSend ==
  /\ io.stage = "send"
  /\ DmxSend(DiscTask)
  /\ io' = [io EXCEPT !.stage = "receive"]
  /\ UNCHANGED <<mux, buffer, acquired, rdm_binding_uid, taskVars, libVars,
                 debug_discovery, responders, deaf, muted, lost, disc_pc, response, disc_params,
                 stack, retval, uids, size, uids_null, found>>

\* The responders act on the request, and the controller waits for what
\* they answer: dmx_receive, rdm_parse, xSemaphoreGiveRecursive.  A
\* broadcast un-mute is not answered; the controller waits for it to go out.
DiscReceive ==
  /\ io.stage = "receive"
  /\ io' = NoIo
  /\ mux' = MuxGive(DiscTask)
  /\ IF io.pid = RDM_PID_DISC_UN_MUTE
     THEN /\ muted' = {}
          /\ response' = NoResponse
          /\ sending' \in {sending, FALSE}
          /\ UNCHANGED lost
     ELSE /\ sending' = FALSE
          /\ IF io.pid = RDM_PID_DISC_UNIQUE_BRANCH
             THEN \E A \in SUBSET InBranch(io.lo, io.hi) :
                    /\ A # InBranch(io.lo, io.hi) => lost < MaxLost
                    /\ lost' = IF A # InBranch(io.lo, io.hi)
                               THEN lost + 1 ELSE lost
                    /\ response' = DubResponse(A)
                    /\ UNCHANGED muted
             ELSE IF io.uid \in responders \ deaf
             THEN \/ /\ muted' = muted \cup {io.uid}
                     /\ response' = MuteResponse(io.uid)
                     /\ UNCHANGED lost
                  \/ /\ lost < MaxLost
                     /\ lost' = lost + 1
                     /\ muted' \in {muted, muted \cup {io.uid}}
                     /\ response' = NoResponse
                  \/ /\ lost < MaxLost
                     /\ lost' = lost + 1
                     /\ muted' = muted \cup {io.uid}
                     /\ \E stale \in StaleUids :
                          response' = DamagedMute(stale)
             ELSE /\ response' = NoResponse
                  /\ UNCHANGED <<muted, lost>>
  /\ UNCHANGED <<tn, buffer, wire, acquired, rdm_binding_uid, taskVars, libVars,
                 debug_discovery, responders, deaf, disc_pc, disc_params, stack, retval,
                 uids, size, uids_null, found>>

\* The frames of the recursion.  A frame of rdm_find_devices works on the
\* shared disc_params; a frame of rdm_quick_find has its caller's copy (lo, hi).
FindFrame ==
  [fn |-> "find", pc |-> "start", attempts |-> 0, uid |-> 0, lo |-> 0,
   hi |-> 0, mid |-> 0, temp_upper |-> 0]
\* (a slip: rdm_quick_find is handed the lower half of the branch)
QuickFrame_Halved(params, uid) ==
  [fn |-> "quick", pc |-> "start", attempts |-> 0, uid |-> uid,
   lo |-> params.lower_bound,
   hi |-> (params.lower_bound + params.upper_bound) \div 2, mid |-> 0,
   temp_upper |-> 0]
QuickFrame(params, uid) ==
  [fn |-> "quick", pc |-> "start", attempts |-> 0, uid |-> uid,
   lo |-> params.lower_bound, hi |-> params.upper_bound, mid |-> 0,
   temp_upper |-> 0]

Top == stack[Len(stack)]
SetTop(f) == [stack EXCEPT ![Len(stack)] = f]
Push(f, callee) == Append(SetTop(f), callee)
Pop == SubSeq(stack, 1, Len(stack) - 1)

\* The top frame is function fn at position p, with no request in flight.
At(fn, p) ==
  /\ disc_pc = "finding"
  /\ io.stage = "none"
  /\ stack # <<>>
  /\ Top.fn = fn
  /\ Top.pc = p

\* (a slip: one attempt more)
TryAgain_Four == response.size = 0 /\ Top.attempts + 1 < 4

\* while (response.size == 0 && ++attempts < 3)
TryAgain == response.size = 0 /\ Top.attempts + 1 < 3

\* (a slip: the index is not checked against size)
AddUid_Unchecked(uid) ==
  /\ uids' = IF ~uids_null THEN [uids EXCEPT ![found] = uid] ELSE uids
  /\ found' = found + 1

\* if (*found < size && uids != NULL) uids[*found] = ...; ++(*found);
AddUid(uid) ==
  /\ uids' = IF found < size /\ ~uids_null
             THEN [uids EXCEPT ![found] = uid] ELSE uids
  /\ found' = found + 1

\* The UID a muted device is listed under: its binding UID if it sent one.
ListedUid(uid) == IF response.uid # 0 THEN response.uid ELSE uid

\* rdm_discover_devices: devices_found = 0, the discovery task is created.
DiscoverCall ==
  /\ disc_pc = "idle"
  /\ disc_pc' = "take"
  /\ found' = 0
  /\ UNCHANGED <<mux, tn, sending, buffer, wire, acquired, rdm_binding_uid,
                 taskVars, libVars, debug_discovery, responders, deaf, muted, lost, io, response, disc_params,
                 stack, retval, uids, size, uids_null>>

\* (a slip: the search starts without the un-mute)
DiscTake_NoUnMute ==
  /\ disc_pc = "take"
  /\ MuxCanTake(DiscTask)
  /\ mux' = MuxTake(DiscTask)
  /\ acquired' = Acquired(DiscTask)
  /\ disc_pc' = "unmute"
  /\ UNCHANGED <<tn, sending, buffer, wire, rdm_binding_uid, taskVars, libVars,
                 debug_discovery, responders, deaf, muted, lost, io, response,
                 disc_params, stack, retval, uids, size, uids_null, found>>

\* rdm_dev_disc_task: takes the mutex and sends the broadcast un-mute.
DiscTake ==
  /\ disc_pc = "take"
  /\ MuxCanTake(DiscTask)
  /\ mux' = MuxTake(DiscTask)
  /\ acquired' = Acquired(DiscTask)
  /\ io' = IoMute(RDM_BROADCAST_UID, TRUE)
  /\ disc_pc' = "unmute"
  /\ UNCHANGED <<tn, sending, buffer, wire, rdm_binding_uid, taskVars, libVars,
                 debug_discovery, responders, deaf, muted, lost, response, disc_params, stack,
                 retval, uids, size, uids_null, found>>

\* rdm_dev_disc_task: the search starts on [0, RDM_MAX_UID].
DiscSearch ==
  /\ disc_pc = "unmute"
  /\ io.stage = "none"
  /\ disc_params' = [lower_bound |-> 0, upper_bound |-> RDM_MAX_UID]
  /\ stack' = <<FindFrame>>
  /\ disc_pc' = "finding"
  /\ UNCHANGED <<mux, tn, sending, buffer, wire, acquired, rdm_binding_uid,
                 taskVars, libVars, debug_discovery, responders, deaf, muted, lost, io, response, retval,
                 uids, size, uids_null, found>>

\* rdm_dev_disc_task: the search is over, the mutex is given back and
\* rdm_discover_devices returns devices_found.
DiscReturn ==
  /\ disc_pc = "finding"
  /\ stack = <<>>
  /\ mux' = MuxGive(DiscTask)
  /\ disc_pc' = "done"
  /\ UNCHANGED <<tn, sending, buffer, wire, acquired, rdm_binding_uid,
                 taskVars, libVars, debug_discovery, responders, deaf, muted, lost, io, response, disc_params,
                 stack, retval, uids, size, uids_null, found>>

\* What the steps of the recursion leave alone.
DiscStepUnchanged ==
  UNCHANGED <<mux, tn, sending, buffer, wire, acquired, rdm_binding_uid,
              taskVars, libVars, debug_discovery, responders, deaf, muted, lost, disc_pc, response, size,
              uids_null>>

\* rdm_find_devices, entry: a single address is muted, a range is searched.
FindStart ==
  /\ At("find", "start")
  /\ IF disc_params.lower_bound = disc_params.upper_bound
     THEN /\ stack' = SetTop([Top EXCEPT !.pc = "mute",
                                         !.uid = disc_params.lower_bound,
                                         !.lo = disc_params.lower_bound,
                                         !.hi = disc_params.upper_bound])
          /\ io' = IoMute(disc_params.lower_bound, FALSE)
     ELSE /\ stack' = SetTop([Top EXCEPT !.pc = "dub",
                                         !.lo = disc_params.lower_bound,
                                         !.hi = disc_params.upper_bound])
          /\ io' = IoDub(disc_params)
  /\ DiscStepUnchanged
  /\ UNCHANGED <<disc_params, retval, uids, found>>

\* (a slip: any response lists the device, as in rdm_quick_find)
FindMuted_AnyResponse ==
  /\ At("find", "mute")
  /\ IF TryAgain
     THEN /\ stack' = SetTop([Top EXCEPT !.attempts = @ + 1])
          /\ io' = IoMute(Top.uid, FALSE)
          /\ UNCHANGED <<uids, found>>
     ELSE IF response.size = 0
     THEN /\ stack' = SetTop([Top EXCEPT !.attempts = @ + 1, !.pc = "flip",
                                         !.uid = FlipUid(Top.uid)])
          /\ io' = IoMute(FlipUid(Top.uid), FALSE)
          /\ UNCHANGED <<uids, found>>
     ELSE /\ AddUid(ListedUid(Top.uid))
          /\ stack' = Pop
          /\ UNCHANGED io
  /\ DiscStepUnchanged
  /\ UNCHANGED <<disc_params, retval>>

\* rdm_find_devices, single address: up to three DISC_MUTEs, then one to
\* the flipped UID.
FindMuted ==
  /\ At("find", "mute")
  /\ IF TryAgain
     THEN /\ stack' = SetTop([Top EXCEPT !.attempts = @ + 1])
          /\ io' = IoMute(Top.uid, FALSE)
          /\ UNCHANGED <<uids, found>>
     ELSE IF response.size = 0
     THEN /\ stack' = SetTop([Top EXCEPT !.attempts = @ + 1, !.pc = "flip",
                                         !.uid = FlipUid(Top.uid)])
          /\ io' = IoMute(FlipUid(Top.uid), FALSE)
          /\ UNCHANGED <<uids, found>>
     ELSE /\ IF response.err = "RDM_OK"
             THEN AddUid(ListedUid(Top.uid))
             ELSE UNCHANGED <<uids, found>>
          /\ stack' = Pop
          /\ UNCHANGED io
  /\ DiscStepUnchanged
  /\ UNCHANGED <<disc_params, retval>>

\* rdm_find_devices, single address: the answer to the flipped UID.
FindFlipped ==
  /\ At("find", "flip")
  /\ IF response.size > 0 /\ response.err = "RDM_OK"
     THEN AddUid(ListedUid(Top.uid))
     ELSE UNCHANGED <<uids, found>>
  /\ stack' = Pop
  /\ DiscStepUnchanged
  /\ UNCHANGED <<io, disc_params, retval>>

\* rdm_find_devices, range: up to three DISC_UNIQUE_BRANCHes; a single valid
\* response goes to rdm_quick_find with a copy of the bounds, or, in a debug
\* build, straight to the two halves.
FindBranched ==
  /\ At("find", "dub")
  /\ IF TryAgain
     THEN /\ stack' = SetTop([Top EXCEPT !.attempts = @ + 1])
          /\ io' = IoDub(disc_params)
          /\ UNCHANGED retval
     ELSE IF response.size > 0 /\ response.err = "RDM_OK"
     THEN IF debug_discovery
          THEN /\ stack' = SetTop([Top EXCEPT !.pc = "quick",
                                              !.uid = response.uid])
               /\ retval' = TRUE
               /\ UNCHANGED io
          ELSE /\ stack' = Push([Top EXCEPT !.pc = "quick",
                                            !.uid = response.uid],
                                QuickFrame(disc_params, response.uid))
               /\ UNCHANGED <<io, retval>>
     ELSE /\ stack' = Pop
          /\ UNCHANGED <<io, retval>>
  /\ DiscStepUnchanged
  /\ UNCHANGED <<disc_params, uids, found>>

\* (a slip: the lower half is the whole branch)
Mid_Upper(lower_bound, upper_bound) == upper_bound

\* mid = (params->lower_bound + temp_upper) / 2
Mid(lower_bound, upper_bound) == (lower_bound + upper_bound) \div 2

\* rdm_find_devices, range: rdm_quick_find returned; if devices remain the
\* lower half is searched.
FindHalved ==
  /\ At("find", "quick")
  /\ IF retval
     THEN LET temp_upper == disc_params.upper_bound
              mid == Mid(disc_params.lower_bound, temp_upper) IN
          /\ disc_params' = [disc_params EXCEPT !.upper_bound = mid]
          /\ stack' = Push([Top EXCEPT !.pc = "lower", !.mid = mid,
                                       !.temp_upper = temp_upper], FindFrame)
     ELSE /\ stack' = Pop
          /\ UNCHANGED disc_params
  /\ DiscStepUnchanged
  /\ UNCHANGED <<io, retval, uids, found>>

\* rdm_find_devices, range: the lower half is done, the upper half is searched.
FindUpper ==
  /\ At("find", "lower")
  /\ disc_params' = [lower_bound |-> Top.mid + 1,
                     upper_bound |-> Top.temp_upper]
  /\ stack' = Push([Top EXCEPT !.pc = "upper"], FindFrame)
  /\ DiscStepUnchanged
  /\ UNCHANGED <<io, retval, uids, found>>

\* rdm_find_devices, range: both halves are done.
FindReturn ==
  /\ At("find", "upper")
  /\ stack' = Pop
  /\ DiscStepUnchanged
  /\ UNCHANGED <<io, disc_params, retval, uids, found>>

\* rdm_quick_find, entry: the device that answered is muted.
QuickStart ==
  /\ At("quick", "start")
  /\ stack' = SetTop([Top EXCEPT !.pc = "mute"])
  /\ io' = IoMute(Top.uid, FALSE)
  /\ DiscStepUnchanged
  /\ UNCHANGED <<disc_params, retval, uids, found>>

\* rdm_quick_find: up to three DISC_MUTEs; any response lists the device;
\* then the branch is asked again.
QuickMuted ==
  /\ At("quick", "mute")
  /\ IF TryAgain
     THEN /\ stack' = SetTop([Top EXCEPT !.attempts = @ + 1])
          /\ io' = IoMute(Top.uid, FALSE)
          /\ UNCHANGED <<uids, found>>
     ELSE /\ IF response.size > 0
             THEN AddUid(ListedUid(Top.uid))
             ELSE UNCHANGED <<uids, found>>
          /\ stack' = SetTop([Top EXCEPT !.attempts = 0, !.pc = "dub"])
          /\ io' = IoDub([lower_bound |-> Top.lo, upper_bound |-> Top.hi])
  /\ DiscStepUnchanged
  /\ UNCHANGED <<disc_params, retval>>

\* rdm_quick_find: up to three DISC_UNIQUE_BRANCHes; a single valid response
\* recurses, a collision returns true, silence returns false.
QuickBranched ==
  /\ At("quick", "dub")
  /\ IF TryAgain
     THEN /\ stack' = SetTop([Top EXCEPT !.attempts = @ + 1])
          /\ io' = IoDub([lower_bound |-> Top.lo, upper_bound |-> Top.hi])
          /\ UNCHANGED retval
     ELSE IF response.size > 0 /\ response.err = "RDM_OK"
     THEN /\ Len(stack) < MaxDepth
          /\ stack' = Push([Top EXCEPT !.pc = "again", !.uid = response.uid],
                           QuickFrame([lower_bound |-> Top.lo,
                                       upper_bound |-> Top.hi], response.uid))
          /\ UNCHANGED <<io, retval>>
     ELSE /\ retval' = (response.size > 0)
          /\ stack' = Pop
          /\ UNCHANGED io
  /\ DiscStepUnchanged
  /\ UNCHANGED <<disc_params, uids, found>>

\* rdm_quick_find: the recursive call returned; its value is returned.
QuickReturn ==
  /\ At("quick", "again")
  /\ stack' = Pop
  /\ DiscStepUnchanged
  /\ UNCHANGED <<io, disc_params, retval, uids, found>>

(***************************************************************************)
(* The responder's parameter table: rdm_register_parameter,                *)
(* rdm_set_parameter.  The table is built with room for                    *)
(* RDM_RESPONDER_PIDS_MAX entries (CONFIG_RDM_RESPONDER_MAX_PARAMETERS,    *)
(* any of 0 .. 512; the model takes a build with 3).                       *)
(***************************************************************************)
RDM_RESPONDER_PIDS_MAX == 3
RDM_SUB_DEVICE_ROOT == 0

\* The bit of desc.cc that allows a SET.
RDM_CC_SET == 2

\* The PIDs that are registered and set, and the two sets of arguments a
\* PID is registered with: descriptor, handlers and context, storage.
Pids == 1 .. RDM_RESPONDER_PIDS_MAX + 1
Variants == {1, 2}
Desc(pid, v) ==
  [pid |-> pid, cc |-> IF v = 1 THEN 3 ELSE 1, pdl_size |-> 2,
   data_type |-> IF v = 1 THEN "RDM_DS_UNSIGNED_WORD" ELSE "RDM_DS_ASCII"]

\* The memory of the table: the slots of driver->rdm_cbs and as many behind.
Slots == 0 .. RDM_RESPONDER_PIDS_MAX + MaxOps

\* A slot that no registration has written, holding PID junk.
FreeSlot(junk) ==
  [desc |-> [pid |-> junk, cc |-> 0, pdl_size |-> 0, data_type |-> "NONE"],
   param_str |-> 0, param |-> 0, context |-> 0, user_cb |-> 0,
   driver_cb |-> 0]

\* The index at which the loop over the table stops for pid: the first of
\* the num_rdm_cbs entries that holds it, or num_rdm_cbs.
StopsAt(pid) ==
  IF \E i \in 0 .. num_rdm_cbs - 1 : rdm_cbs[i].desc.pid = pid
  THEN CHOOSE i \in 0 .. num_rdm_cbs - 1 :
         /\ rdm_cbs[i].desc.pid = pid
         /\ \A j \in 0 .. i - 1 : rdm_cbs[j].desc.pid # pid
  ELSE num_rdm_cbs

\* The entry the loop of rdm_pd_find, rdm_get_parameter and rdm_set_parameter
\* finds for pid.
Found(pid) == StopsAt(pid) < num_rdm_cbs

\* The highest slot the loop reads for pid (-1: none).
LastRead(pid) ==
  IF StopsAt(pid) < num_rdm_cbs THEN StopsAt(pid) ELSE num_rdm_cbs - 1

NoCall ==
  [op |-> "none", pid |-> 0, ret |-> FALSE, existed |-> FALSE, num |-> 0,
   read |-> -1, written |-> -1, nvs |-> FALSE, stored |-> FALSE,
   pd |-> 0, in_memory |-> FALSE, flag |-> FALSE, table |-> <<>>]

\* if (i == RDM_RESPONDER_PIDS_MAX)
HasNoSpace(i) == i = RDM_RESPONDER_PIDS_MAX

\* rdm_register_parameter(dmx_num, sub_device, desc, param_str, driver_cb,
\* param, user_cb, context)
RegisterParameter(sub_device, pid, v) ==
  /\ p_ops < MaxOps
  /\ p_ops' = p_ops + 1
  /\ LET i == StopsAt(pid)
         call == [NoCall EXCEPT !.op = "register", !.pid = pid,
                                !.existed = Found(pid), !.num = num_rdm_cbs,
                                !.flag = boot_loader, !.table = rdm_cbs]
     IN
     IF sub_device # RDM_SUB_DEVICE_ROOT
     THEN /\ p_last' = call
          /\ UNCHANGED <<rdm_cbs, num_rdm_cbs>>
     ELSE IF HasNoSpace(i)
     THEN /\ p_last' = [call EXCEPT !.read = LastRead(pid)]
          /\ UNCHANGED <<rdm_cbs, num_rdm_cbs>>
     ELSE /\ rdm_cbs' = [rdm_cbs EXCEPT ![i] =
               [desc |-> Desc(pid, v), param_str |-> v, param |-> v,
                context |-> v, user_cb |-> v, driver_cb |-> v]]
          /\ num_rdm_cbs' = num_rdm_cbs + 1
          /\ p_last' = [call EXCEPT !.ret = TRUE, !.read = LastRead(pid),
                                    !.written = i]
  /\ UNCHANGED <<pd_store, boot_loader, portVars, lib_pc, lib_in, lib_out,
                 memVars>>

\* The bytes a set leaves in the storage: memcpy copies size bytes, strncpy
\* copies up to the first zero and fills the rest of the size bytes with zero.
Copied(old, param, n, ascii) ==
  [k \in DOMAIN old |->
     IF k > n THEN old[k]
     ELSE IF ascii /\ \E j \in 1 .. k : param[j] = 0 THEN 0
     ELSE param[k]]

\* (a slip: a failed store fails the set)
SetReturns_StoreDecides(in_memory, nvs, stored) == in_memory /\ (nvs => stored)

\* What rdm_set_parameter returns: whether the parameter was set in memory.
SetReturns(in_memory, nvs, stored) == in_memory

\* rdm_set_parameter(dmx_num, pid, param, size, nvs); stored is what
\* dmx_nvs_set returns if it is called.
SetParameter(pid, param, n, nvs, stored) ==
  /\ p_ops < MaxOps
  /\ p_ops' = p_ops + 1
  /\ LET i == StopsAt(pid)
         pd == IF Found(pid) THEN rdm_cbs[i].param ELSE 0
         in_memory ==
           pd # 0 /\ (rdm_cbs[i].desc.cc \div RDM_CC_SET) % 2 = 1
         len == IF n < rdm_cbs[i].desc.pdl_size
                THEN n ELSE rdm_cbs[i].desc.pdl_size
         set == SetReturns(in_memory, nvs, stored)
     IN
     /\ pd_store' =
          IF in_memory
          THEN [pd_store EXCEPT ![pd] =
                  Copied(@, param, len,
                         rdm_cbs[i].desc.data_type = "RDM_DS_ASCII")]
          ELSE pd_store
     /\ boot_loader' = (boot_loader \/ (set /\ nvs /\ ~stored))
     /\ p_last' = [NoCall EXCEPT !.op = "set", !.pid = pid, !.ret = set,
                                 !.existed = Found(pid), !.num = num_rdm_cbs,
                                 !.read = LastRead(pid), !.nvs = nvs,
                                 !.stored = stored, !.flag = boot_loader,
                                 !.pd = pd, !.in_memory = in_memory,
                                 !.table = rdm_cbs]
  /\ UNCHANGED <<rdm_cbs, num_rdm_cbs, portVars, lib_pc, lib_in, lib_out,
                 memVars>>

(***************************************************************************)
(* Bytes and frames.  A frame or a buffer is a sequence of bytes; offset i *)
(* of the code is element i + 1.                                           *)
(***************************************************************************)
RDM_SC == 204
RDM_SUB_SC == 1
RDM_PREAMBLE == 254
RDM_DELIMITER == 170
RDM_BASE_PACKET_SIZE == 26
DMX_NUM_MAX == 3

\* data[i]
At0(data, i) == data[i + 1]

\* The sum of data[0] .. data[n - 1].
RECURSIVE SumTo(_, _)
SumTo(data, n) == IF n = 0 THEN 0 ELSE SumTo(data, n - 1) + At0(data, n - 1)

\* bswap16 followed by a 16-bit store, and the matching load: big-endian.
Word16(w) == <<(w \div 256) % 256, w % 256>>
Load16(data, i) == At0(data, i) * 256 + At0(data, i + 1)

\* uid_to_buf: the six bytes of a UID, most significant first.
uid_to_buf(uid) == Word16(uid.man_id) \o Word16(uid.dev_hi) \o Word16(uid.dev_lo)

(***************************************************************************)
(* rdm_send_disc_response and rdm_parse.  In these functions a UID is the  *)
(* six bytes of its memory, byte 0 to byte 5, here uid[1] to uid[6].       *)
(***************************************************************************)
\* (a slip: the checksum leaves out what the encoding adds to each byte)
ChecksumTerm_Plain(b) == b

\* checksum += uid byte j + (0xaa + 0x55)
ChecksumTerm(b) == b + (170 + 85)

\* The checksum rdm_send_disc_response computes over the UID.
RECURSIVE DiscChecksum(_, _)
DiscChecksum(uid, j) ==
  IF j = 0 THEN 0
  ELSE (DiscChecksum(uid, j - 1) + ChecksumTerm(uid[j])) % 65536

\* The 24 bytes rdm_send_disc_response writes for uid.
DiscResponseFrame(uid) ==
  LET checksum == DiscChecksum(uid, 6) IN
  [i \in 1 .. 7 |-> RDM_PREAMBLE] \o <<RDM_DELIMITER>>
  \o <<BitOr(uid[6], 170), BitOr(uid[6], 85), BitOr(uid[5], 170),
       BitOr(uid[5], 85), BitOr(uid[4], 170), BitOr(uid[4], 85),
       BitOr(uid[3], 170), BitOr(uid[3], 85), BitOr(uid[2], 170),
       BitOr(uid[2], 85), BitOr(uid[1], 170), BitOr(uid[1], 85)>>
  \o <<BitOr((checksum \div 256) % 256, 170),
       BitOr((checksum \div 256) % 256, 85),
       BitOr(checksum % 256, 170), BitOr(checksum % 256, 85)>>

\* (a slip: the masks are exchanged)
DecodeByte_Exchanged(first, second) ==
  BitOr(BitAnd(first, 170), BitAnd(second, 85))

\* The byte that the two bytes response[j], response[j + 1] encode.
DecodeByte(first, second) == BitOr(BitAnd(first, 85), BitAnd(second, 170))

\* The length of the preamble: the first of data[0 .. 6] that is the
\* delimiter, or 7.
PreambleLen(data) ==
  IF \E k \in 0 .. 6 : At0(data, k) = RDM_DELIMITER
  THEN CHOOSE k \in 0 .. 6 :
         /\ At0(data, k) = RDM_DELIMITER
         /\ \A l \in 0 .. k - 1 : At0(data, l) # RDM_DELIMITER
  ELSE 7

NoEvent ==
  [ret |-> FALSE, branch |-> "none", uid |-> <<>>, sum |-> 0, checksum |-> 0,
   top |-> 1, message_len |-> 0]

\* The discovery-response branch of rdm_parse.
ParseDisc(data, nbytes) ==
  LET preamble_len == PreambleLen(data)
      r == preamble_len + 1
      uid == [i \in 1 .. 6 |->
                DecodeByte(At0(data, r + 2 * (6 - i)),
                           At0(data, r + 2 * (6 - i) + 1))]
      sum == (uid[1] + uid[2] + uid[3] + uid[4] + uid[5] + uid[6] + 6 * 255)
               % 65536
      checksum == DecodeByte(At0(data, r + 12), At0(data, r + 13)) * 256
                    + DecodeByte(At0(data, r + 14), At0(data, r + 15))
  IN
  IF At0(data, preamble_len) # RDM_DELIMITER \/ nbytes < preamble_len + 17
  THEN [NoEvent EXCEPT !.branch = "disc", !.top = preamble_len]
  ELSE [NoEvent EXCEPT !.ret = (sum = checksum), !.branch = "disc",
                       !.uid = uid, !.sum = sum, !.checksum = checksum,
                       !.top = r + 15]

\* The standard branch of rdm_parse.
ParseStd(data, nbytes) ==
  LET message_len == At0(data, 2)
      sum == SumTo(data, message_len) % 65536
      checksum == Load16(data, message_len)
  IN
  [NoEvent EXCEPT !.ret = (sum = checksum), !.branch = "std", !.sum = sum,
                  !.checksum = checksum, !.top = message_len + 1,
                  !.message_len = message_len]

\* rdm_parse(data, size, event): what it returns, what it decodes, and the
\* highest offset it reads (top).
rdm_parse(data, nbytes) ==
  IF (At0(data, 0) = RDM_PREAMBLE \/ At0(data, 0) = RDM_DELIMITER) /\ nbytes > 17
  THEN ParseDisc(data, nbytes)
  ELSE IF At0(data, 0) = RDM_SC /\ At0(data, 1) = RDM_SUB_SC
          /\ nbytes >= RDM_BASE_PACKET_SIZE
  THEN ParseStd(data, nbytes)
  ELSE NoEvent

(***************************************************************************)
(* rdm_send_disc_unique_branch: the request it writes.                     *)
(***************************************************************************)
\* (a slip: the length leaves out the parameter data)
DubMessageLen_Header == RDM_BASE_PACKET_SIZE - 2

\* rdm->message_len = RDM_BASE_PACKET_SIZE + 12 - 2
DubMessageLen == RDM_BASE_PACKET_SIZE + 12 - 2

DubRequest(dmx_num, src, rdm_tn, params) ==
  LET body ==
        <<RDM_SC, RDM_SUB_SC, DubMessageLen>>
        \o uid_to_buf(RDM_UID_BROADCAST_ALL) \o uid_to_buf(src)
        \o <<rdm_tn, dmx_num + 1, 0>> \o Word16(0)
        \o <<RDM_CC_DISC_COMMAND>> \o Word16(RDM_PID_DISC_UNIQUE_BRANCH)
        \o <<12>>
        \o uid_to_buf(params.lower_bound) \o uid_to_buf(params.upper_bound)
      request == body \o <<0, 0>>
      checksum == SumTo(request, At0(request, 2)) % 65536
  IN
  [i \in 1 .. RDM_BASE_PACKET_SIZE + 12 |->
     IF i = At0(request, 2) + 1 THEN Word16(checksum)[1]
     ELSE IF i = At0(request, 2) + 2 THEN Word16(checksum)[2]
     ELSE request[i]]

(***************************************************************************)
(* rdm_param_parse and rdm_pd_emplace.  A format string is a sequence of   *)
(* symbols; an integer literal "#...h" is one symbol with its number of    *)
(* hexadecimal digits, its value and whether an 'h' ends it.                *)
(***************************************************************************)
Sym(c) == [sym |-> c, digits |-> 0, closed |-> TRUE, value |-> 0]
Literal(digits, closed) ==
  [sym |-> "#", digits |-> digits, closed |-> closed, value |-> 2748]

FieldSize(f) ==
  CASE f.sym = "b" -> 1
    [] f.sym = "w" -> 2
    [] f.sym = "d" -> 4
    [] f.sym \in {"u", "v"} -> 6
    [] f.sym = "a" -> 32
    [] f.sym = "#" -> (f.digits \div 2) + (f.digits % 2)
    [] OTHER -> 0

\* rdm_param_parse from symbol k on: the size of the parameter (0 or -1 for
\* a format in error) and whether it is a singleton.
RECURSIVE ParamParseFrom(_, _, _, _)
ParamParseFrom(format, k, param_size, is_singleton) ==
  IF k > Len(format)
  THEN [size |-> param_size, is_singleton |-> is_singleton]
  ELSE
    LET f == format[k]
        at_end == k = Len(format) \/ format[k + 1].sym = "$"
        error ==
          \/ f.sym \in {"v", "a"} /\ ~at_end
          \/ f.sym = "#" /\ (f.digits > 16 \/ ~f.closed)
          \/ f.sym = "$" /\ k # Len(format)
          \/ f.sym \notin {"b", "w", "d", "u", "v", "a", "#", "$"}
          \/ param_size + FieldSize(f) > 231
    IN
    IF error
    THEN [size |-> IF f.sym = "a" /\ ~at_end THEN -1 ELSE 0,
          is_singleton |-> is_singleton]
    ELSE ParamParseFrom(format, k + 1, param_size + FieldSize(f),
                        is_singleton \/ f.sym \in {"v", "a", "$"})

rdm_param_parse(format) == ParamParseFrom(format, 1, 0, format = <<>>)

Max(a, b) == IF a > b THEN a ELSE b
Min(a, b) == IF a < b THEN a ELSE b

\* max_len = (num - n) < 32 ? (num - n) : 32, in size_t: num - n wraps to
\* a large number when n is above num.
AsciiMaxLen(num, n) ==
  IF n <= num /\ num - n < 32 THEN num - n ELSE 32

\* The source of an emplace: the bytes at its start, and what the memory
\* behind them holds (zeros, or bytes that are never zero).
SourceByte(source, i) ==
  IF i < Len(source.bytes) THEN source.bytes[i + 1]
  ELSE IF source.rest = "zero" THEN 0
  ELSE (i % 251) + 1

\* strnlen(source + n, max_len)
StrNLen(source, n, max_len) ==
  IF \E j \in 0 .. max_len - 1 : SourceByte(source, n + j) = 0
  THEN CHOOSE j \in 0 .. max_len - 1 :
         /\ SourceByte(source, n + j) = 0
         /\ \A l \in 0 .. j - 1 : SourceByte(source, n + l) # 0
  ELSE max_len

\* rdm_uid_is_null(source + n)
UidIsNullAt(source, n) == \A j \in 0 .. 5 : SourceByte(source, n + j) = 0

\* (a slip: the dword is rotated by one byte)
Swapped32_Rotated(source, n) ==
  <<SourceByte(source, n + 1), SourceByte(source, n + 2),
    SourceByte(source, n + 3), SourceByte(source, n)>>

\* bswap16 and bswap32 of what is at source + n, as stored bytes.
Swapped16(source, n) == <<SourceByte(source, n + 1), SourceByte(source, n)>>
Swapped32(source, n) ==
  <<SourceByte(source, n + 3), SourceByte(source, n + 2),
    SourceByte(source, n + 1), SourceByte(source, n)>>

\* rdm_uidmove(destination + n, source + n): rdm_uidcpy of a copy, the
\* man_id swapped as a word and the dev_id as a dword.
UidMoved(source, n) == Swapped16(source, n) \o Swapped32(source, n + 2)

\* The bytes of an integer literal, most significant first.
LiteralBytes(f) ==
  [j \in 1 .. FieldSize(f) |->
     (f.value \div (256 ^ (FieldSize(f) - j))) % 256]

\* (a slip: an absent optional UID is left out whatever emplace_nulls is)
OmitsUid_Always(emplace_nulls, is_null) == is_null

\* The optional UID is left out of the destination.
OmitsUid(emplace_nulls, is_null) == ~emplace_nulls /\ is_null

\* One pass of rdm_pd_emplace over the format from symbol k on.  st.n is
\* n, st.top the end of the highest byte written to the destination, and
\* st.dest the bytes written.  (n is never negative: the test of st.n only
\* has st evaluated at every step.)
RECURSIVE EmplaceFields(_, _, _, _)
EmplaceFields(format, k, st, arg) ==
  IF k > Len(format) \/ st.n < 0 THEN st
  ELSE
    LET f == format[k]
        Wrote(bytes) ==
          [n |-> st.n + Len(bytes),
           top |-> IF Len(bytes) > 0 THEN Max(st.top, st.n + Len(bytes))
                   ELSE st.top,
           dest |-> st.dest \o bytes]
        len == StrNLen(arg.source, st.n, AsciiMaxLen(arg.num, st.n))
    IN
    CASE f.sym = "b" ->
           EmplaceFields(format, k + 1,
                         Wrote(<<SourceByte(arg.source, st.n)>>), arg)
      [] f.sym = "w" ->
           EmplaceFields(format, k + 1, Wrote(Swapped16(arg.source, st.n)),
                         arg)
      [] f.sym = "d" ->
           EmplaceFields(format, k + 1, Wrote(Swapped32(arg.source, st.n)),
                         arg)
      [] f.sym = "u" ->
           EmplaceFields(format, k + 1, Wrote(UidMoved(arg.source, st.n)),
                         arg)
      [] f.sym = "v" ->
           IF OmitsUid(arg.emplace_nulls, UidIsNullAt(arg.source, st.n))
           THEN st
           ELSE EmplaceFields(format, k + 1,
                              Wrote(UidMoved(arg.source, st.n)), arg)
      [] f.sym = "a" ->
           Wrote([j \in 1 .. len |-> SourceByte(arg.source, st.n + j - 1)]
                 \o (IF arg.emplace_nulls THEN <<0>> ELSE <<>>))
      [] f.sym = "#" ->
           EmplaceFields(format, k + 1, Wrote(LiteralBytes(f)), arg)
      [] OTHER -> EmplaceFields(format, k + 1, st, arg)

\* The outer loop: i passes over the format, one after the other (the
\* passes are split in halves to keep the evaluation shallow).
RECURSIVE EmplaceParams(_, _, _, _)
EmplaceParams(format, i, st, arg) ==
  IF i = 0 \/ st.n < 0 THEN st
  ELSE IF i = 1 THEN EmplaceFields(format, 1, st, arg)
  ELSE EmplaceParams(format, i - (i \div 2),
                     EmplaceParams(format, i \div 2, st, arg), arg)

\* rdm_pd_emplace(destination, format, source, num, emplace_nulls): n, what
\* it returns, top, the number of bytes of the destination it reaches, and
\* dest, the bytes it leaves there.
rdm_pd_emplace(format, num, emplace_nulls, source) ==
  LET clamped == IF num > 231 THEN 231 ELSE num
      parsed == rdm_param_parse(format)
      num_params_to_copy ==
        IF parsed.is_singleton THEN 1 ELSE clamped \div parsed.size
      none == [n |-> 0, top |-> 0, dest |-> <<>>]
  IN
  IF parsed.size < 1 THEN none
  ELSE EmplaceParams(format, num_params_to_copy, none,
                     [num |-> clamped, emplace_nulls |-> emplace_nulls,
                      source |-> source])

(***************************************************************************)
(* The specifications.                                                     *)
(***************************************************************************)
\* The memory from uids[0] on: the caller's array and what lies behind it.
Memory == 0 .. MaxSize + MaxResponders + 1
NoUids == [i \in Memory |-> -1]

\* The port after dmx_driver_install; no request task has called yet.
InitDriver ==
  /\ mux = [owner |-> 0, count |-> 0]
  /\ sending = FALSE
  /\ buffer = [task |-> 0, hdr |-> NoHeader, pd |-> <<>>]
  /\ wire = <<>>
  /\ acquired = 0
  /\ pc = [t \in Tasks |-> "idle"]
  /\ header = [t \in Tasks |-> NoHeader]
  /\ supplied = [t \in Tasks |-> NoHeader]
  /\ response_expected = [t \in Tasks |-> FALSE]
  /\ ack = [t \in Tasks |-> NoAck]
  /\ resp = [t \in Tasks |-> NoResp]
  /\ ret = [t \in Tasks |-> "none"]
  /\ steps = [t \in Tasks |-> <<>>]

\* No rdm_uid_get has run: the binding UID is not set.
InitPort ==
  /\ InitDriver
  /\ rdm_binding_uid = NullUid

\* A size_t of the target (32 bits), as its two 16-bit halves <<high, low>>.
Half == 65536
Word(n) == <<0, n>>
Add32(a, b) ==
  <<(a[1] + b[1] + (a[2] + b[2]) \div Half) % Half, (a[2] + b[2]) % Half>>
Leq32(a, b) == a[1] < b[1] \/ (a[1] = b[1] /\ a[2] <= b[2])

\* What a task has in hand when it calls nothing.
NoLocal ==
  [calls |-> 0, dmx_num |-> 0, req |-> Word(0), got |-> Word(0),
   null |-> TRUE, fits |-> FALSE, man_id |-> 0, dev_id |-> <<0, 0>>,
   pid |-> 0,
   v |-> 0, i |-> 0, found |-> FALSE, whole |-> TRUE]

\* No library call is under way, nothing is allocated.
InitMem ==
  /\ tpc = [t \in Tasks |-> "off"]
  /\ local = [t \in Tasks |-> NoLocal]
  /\ spinlock = 0
  /\ pd_head = Word(0)
  /\ allocs = <<>>

\* The parameter table after the driver is installed: no entries; the slots
\* hold no PID, or one that no registration put there.
InitTable ==
  /\ \E junk \in {0, RDM_RESPONDER_PIDS_MAX + 1} :
       rdm_cbs = [i \in Slots |-> FreeSlot(junk)]
  /\ num_rdm_cbs = 0
  /\ pd_store = [v \in Variants |-> <<0, 0>>]
  /\ boot_loader = FALSE
  /\ p_last = NoCall
  /\ InitMem

\* No call is made on the parameter table, no library function is applied.
InitIdle ==
  /\ rdm_cbs = [i \in Slots |-> FreeSlot(0)]
  /\ num_rdm_cbs = 0
  /\ pd_store = [v \in Variants |-> <<0, 0>>]
  /\ boot_loader = FALSE
  /\ p_last = NoCall
  /\ InitMem
  /\ p_ops = MaxOps
  /\ lib_pc = "off"
  /\ lib_in = <<>>
  /\ lib_out = <<>>

\* The line and the caller of rdm_discover_devices before the call.
InitLine(R, call) ==
  /\ debug_discovery \in {FALSE, call}
  /\ responders \in R
  /\ muted \in {{}, responders}
  /\ disc_pc = IF call THEN "idle" ELSE "off"
  /\ io = NoIo
  /\ response = NoResponse
  /\ disc_params = [lower_bound |-> 0, upper_bound |-> 0]
  /\ stack = <<>>
  /\ retval = FALSE
  /\ uids = NoUids
  /\ found = 0

\* The request transaction: task 1 draws its requests and responses from the
\* full sets, task 2 from the plain ones.  No discovery runs.
Init ==
  /\ InitPort
  /\ InitIdle
  /\ tn \in {0, 255}
  /\ calls = [t \in Tasks |-> MaxCalls]
  /\ InitLine({{}}, FALSE)
  /\ deaf = {}
  /\ lost = 0
  /\ size = 0
  /\ uids_null = TRUE

Next ==
  \/ RequestCall(1, CallerHeaders)
  \/ RequestCall(2, PlainHeaders)
  \/ RequestRead(1, TRUE)
  \/ RequestRead(2, FALSE)
  \/ \E t \in Tasks :
       \/ RequestTake(t)
       \/ RequestWaitSent(t)
       \/ RequestWrite(t)
       \/ RequestSend(t)
       \/ RequestReceive(t)
       \/ RequestNoResponse(t)
       \/ RequestReturn(t)
  \/ TxDone

Spec == Init /\ [][Next]_vars

\* Task 1 calls rdm_send, task 2 calls rdm_send_request after or while it
\* does.
NextSend ==
  \/ SendCall(1, CallerHeaders)
  \/ SendTake(1)
  \/ SendWaitSent(1)
  \/ SendWrite(1)
  \/ SendSend(1)
  \/ SendReceive(1)
  \/ SendNoResponse(1)
  \/ RequestCall(2, PlainHeaders)
  \/ RequestTake(2)
  \/ RequestWaitSent(2)
  \/ RequestWrite(2)
  \/ RequestSend(2)
  \/ RequestReceive(2)
  \/ RequestNoResponse(2)
  \/ RequestRead(2, FALSE)
  \/ \E t \in Tasks : RequestReturn(t)
  \/ TxDone

SpecSend == Init /\ [][NextSend]_vars

\* The steps of a discovery run.
Discovery ==
  \/ DiscoverCall
  \/ DiscTake
  \/ DiscWrite
  \/ DiscSend
  \/ DiscReceive
  \/ DiscSearch
  \/ FindStart
  \/ FindMuted
  \/ FindFlipped
  \/ FindBranched
  \/ FindHalved
  \/ FindUpper
  \/ FindReturn
  \/ QuickStart
  \/ QuickMuted
  \/ QuickBranched
  \/ QuickReturn
  \/ DiscReturn

\* Discovery alone on the port, over every set of up to MaxResponders
\* responders and every array of up to MaxSize entries (or none).
ResponderSets ==
  {S \in SUBSET (0 .. RDM_MAX_UID) : Cardinality(S) <= MaxResponders}

InitDisc ==
  /\ InitPort
  /\ InitIdle
  /\ tn = 255
  /\ calls = [t \in Tasks |-> 0]
  /\ InitLine(ResponderSets, TRUE)
  /\ deaf = {}
  /\ lost = 0
  /\ size \in 0 .. MaxSize
  /\ uids_null \in BOOLEAN
  /\ uids_null => size = MaxSize

NextDisc ==
  \/ Discovery
  \/ TxDone

SpecDisc == InitDisc /\ [][NextDisc]_vars

\* Discovery alone on the port, where at most one of the responders answers
\* DISC_UNIQUE_BRANCH as it should and never acts on a DISC_MUTE.
InitDeaf ==
  /\ InitPort
  /\ InitIdle
  /\ tn = 255
  /\ calls = [t \in Tasks |-> 0]
  /\ InitLine(ResponderSets, TRUE)
  /\ deaf \in {D \in SUBSET responders : Cardinality(D) <= 1}
  /\ lost = 0
  /\ size \in 0 .. MaxSize
  /\ uids_null \in BOOLEAN
  /\ uids_null => size = MaxSize

SpecDeaf == InitDeaf /\ [][NextDisc]_vars


\* Two request tasks and a discovery run on the same port: a debug build
\* with one responder on a line that loses nothing, or the default build
\* with two responders on a line that may lose answers.
InitConc ==
  /\ InitPort
  /\ InitIdle
  /\ tn = 255
  /\ calls = [t \in Tasks |-> MaxCalls]
  /\ InitLine({{1}, {0, 1}}, TRUE)
  /\ debug_discovery = (responders = {1})
  /\ muted = responders
  /\ deaf = {}
  /\ lost = IF debug_discovery THEN MaxLost ELSE 0
  /\ size = MaxSize
  /\ uids_null = FALSE

NextConc ==
  \/ \E t \in Tasks :
       \/ RequestCall(t, PlainHeaders)
       \/ RequestTake(t)
       \/ RequestWaitSent(t)
       \/ RequestWrite(t)
       \/ RequestSend(t)
       \/ RequestReceive(t)
       \/ RequestNoResponse(t)
       \/ RequestRead(t, FALSE)
       \/ RequestReturn(t)
  \/ Discovery
  \/ TxDone

SpecConc == InitConc /\ [][NextConc]_vars

\* The parameter table alone: up to MaxOps calls of rdm_register_parameter
\* and rdm_set_parameter, in any order.
ParamValues == {<<7, 8, 9>>, <<7, 0, 9>>}

InitParams ==
  /\ InitPort
  /\ tn = 0
  /\ calls = [t \in Tasks |-> 0]
  /\ InitLine({{}}, FALSE)
  /\ deaf = {}
  /\ lost = 0
  /\ size = 0
  /\ uids_null = TRUE
  /\ InitTable
  /\ p_ops = 0
  /\ lib_pc = "off"
  /\ lib_in = <<>>
  /\ lib_out = <<>>

NextParams ==
  \/ \E pid \in Pids, v \in Variants :
       RegisterParameter(RDM_SUB_DEVICE_ROOT, pid, v)
  \/ RegisterParameter(1, 1, 1)
  \/ \E pid \in Pids, param \in ParamValues, n \in {1, 3},
        nvs \in BOOLEAN, stored \in BOOLEAN :
       (nvs \/ stored) /\ SetParameter(pid, param, n, nvs, stored)

SpecParams == InitParams /\ [][NextParams]_vars

(***************************************************************************)
(* The library functions, each applied once to arguments drawn at the      *)
(* start.                                                                  *)
(***************************************************************************)
\* The bytes the UIDs of discovery responses are made of.
ByteSamples == {0, 18, 165, 255}
UidSamples == [1 .. 6 -> ByteSamples]

\* A discovery response with its first k bytes lost, in a buffer of 24.
Shortened(uid, k) ==
  SubSeq(DiscResponseFrame(uid), k + 1, 24) \o [i \in 1 .. k |-> 0]

\* The response FE FE FE FE FE FE FE AA AB 57 AB 57 AB 57 AB 57 F5 AA F5 AA
\* F5 AA F5 AA.
ExampleResponse ==
  [i \in 1 .. 7 |-> RDM_PREAMBLE] \o <<RDM_DELIMITER>>
  \o <<171, 87, 171, 87, 171, 87, 171, 87, 245, 170, 245, 170>>
  \o <<245, 170, 245, 170>>

\* A buffer that holds a GET DEVICE_INFO request with message length
\* message_len, the checksum (right or off by one) where message_len puts
\* it, and zeros up to offset 31.
StdBuffer(message_len, good) ==
  LET request ==
        <<RDM_SC, RDM_SUB_SC, message_len>>
        \o uid_to_buf(UidA)
        \o uid_to_buf(Uid(RDM_UID_MANUFACTURER_ID, MacDevId[1], MacDevId[2]))
        \o <<1, 1, 0>> \o Word16(0) \o <<RDM_CC_GET_COMMAND>>
        \o Word16(RDM_PID_DEVICE_INFO) \o <<0>>
      zeroed == request \o [i \in 1 .. 8 |-> 0]
      checksum ==
        (SumTo(zeroed, message_len) + (IF good THEN 0 ELSE 1)) % 65536
  IN
  [i \in 1 .. 32 |->
     IF i = message_len + 1 THEN Word16(checksum)[1]
     ELSE IF i = message_len + 2 THEN Word16(checksum)[2]
     ELSE zeroed[i]]

ParseInputs ==
  {[fn |-> "parse", data |-> ExampleResponse, size |-> 24]}
  \cup {[fn |-> "parse", data |-> Shortened(uid, k), size |-> 24 - k] :
          uid \in {<<2, 2, 2, 2, 2, 2>>, <<120, 86, 52, 18, 224, 5>>},
          k \in 0 .. 7}
  \cup {[fn |-> "parse", data |-> StdBuffer(message_len, good),
         size |-> nbytes] :
          message_len \in {24, 25, 26, 28}, good \in BOOLEAN,
          nbytes \in {25, 26, 28}}

BranchSamples ==
  {[lower_bound |-> NullUid, upper_bound |-> Uid(32767, 65535, 65535)],
   [lower_bound |-> NullUid, upper_bound |-> Uid(65535, 65535, 65534)],
   [lower_bound |-> UidA, upper_bound |-> UidA]}

DubInputs ==
  {[fn |-> "disc_unique_branch", dmx_num |-> dmx_num, src |-> src,
    rdm_tn |-> rdm_tn, params |-> params] :
     dmx_num \in 0 .. DMX_NUM_MAX - 1,
     src \in {Uid(RDM_UID_MANUFACTURER_ID, MacDevId[1], MacDevId[2]), UidB},
     rdm_tn \in {0, 1, 255}, params \in BranchSamples}

\* The binding UID before rdm_uid_get: not set yet, or set by an earlier
\* call from the address of the device.
BindingSamples ==
  {NullUid}
  \cup {Uid(RDM_UID_MANUFACTURER_ID, h, l) :
          h \in {4660, 65535}, l \in {22017, 22271, 65534, 65535}}

FormatSymbols ==
  {Sym(c) : c \in {"b", "w", "d", "u", "v", "a", "$", "?"}}
  \cup {Literal(3, TRUE), Literal(3, FALSE), Literal(17, TRUE)}

Formats == UNION {[1 .. k -> FormatSymbols] : k \in 1 .. MaxFormat}

\* The sources: nothing but zeros, nothing but other bytes, a word or a
\* string of two characters before zeros, a null UID before other bytes,
\* and strings of up to 33 characters.
Sources ==
  {[bytes |-> <<>>, rest |-> "zero"], [bytes |-> <<>>, rest |-> "count"],
   [bytes |-> <<65, 66>>, rest |-> "zero"],
   [bytes |-> <<0, 0, 0, 0, 0, 0>>, rest |-> "count"]}

Strings == {[bytes |-> [j \in 1 .. l |-> 96 + j], rest |-> "zero"] : l \in 0 .. 33}

\* The formats of DISC_UNIQUE_BRANCH, DISC_MUTE, SOFTWARE_VERSION_LABEL and
\* DMX_START_ADDRESS: "uu$", "wv$", "a$", "w$".
DocumentedFormats ==
  {<<Sym("u"), Sym("u"), Sym("$")>>, <<Sym("w"), Sym("v"), Sym("$")>>,
   <<Sym("a"), Sym("$")>>, <<Sym("w"), Sym("$")>>}

EmplaceInputs ==
  {[fn |-> "pd_emplace", format |-> format, num |-> num,
    emplace_nulls |-> emplace_nulls, source |-> source] :
     format \in Formats \cup DocumentedFormats, num \in {0, 1, 2, 3, 7, 33, 300},
     emplace_nulls \in BOOLEAN, source \in Sources}
  \cup {[fn |-> "pd_emplace", format |-> <<Sym("a")>>, num |-> num,
         emplace_nulls |-> emplace_nulls, source |-> source] :
          num \in {32, 231}, emplace_nulls \in BOOLEAN, source \in Strings}

LibUnchanged ==
  UNCHANGED <<mux, tn, sending, buffer, wire, acquired, taskVars, discVars,
              paramVars, memVars>>

\* rdm_send_disc_response(dmx_num, uid): the response is written and sent.
SendDiscResponse ==
  /\ lib_pc = "call" /\ lib_in.fn = "disc_response"
  /\ lib_out' = [frame |-> DiscResponseFrame(lib_in.uid)]
  /\ lib_pc' = "sent"
  /\ UNCHANGED <<lib_in, rdm_binding_uid>>
  /\ LibUnchanged

\* rdm_send_disc_unique_branch: the request is written and sent.
SendDiscUniqueBranch ==
  /\ lib_pc = "call" /\ lib_in.fn = "disc_unique_branch"
  /\ lib_out' = [frame |-> DubRequest(lib_in.dmx_num, lib_in.src,
                                      lib_in.rdm_tn, lib_in.params)]
  /\ lib_pc' = "sent"
  /\ UNCHANGED <<lib_in, rdm_binding_uid>>
  /\ LibUnchanged

\* The receiver of the frame applies rdm_parse to it.
ParseReceived ==
  /\ lib_pc = "sent"
  /\ lib_out' = [frame |-> lib_out.frame,
                 event |-> rdm_parse(lib_out.frame, Len(lib_out.frame))]
  /\ lib_pc' = "done"
  /\ UNCHANGED <<lib_in, rdm_binding_uid>>
  /\ LibUnchanged

\* rdm_parse applied to the first size bytes of a buffer.
ParseBuffer ==
  /\ lib_pc = "call" /\ lib_in.fn = "parse"
  /\ lib_out' = [frame |-> lib_in.data,
                 event |-> rdm_parse(lib_in.data, lib_in.size)]
  /\ lib_pc' = "done"
  /\ UNCHANGED <<lib_in, rdm_binding_uid>>
  /\ LibUnchanged

\* rdm_uid_get(dmx_num, uid)
UidGet ==
  /\ lib_pc = "call" /\ lib_in.fn = "uid_get"
  /\ rdm_binding_uid' = BindingAfterGet(rdm_binding_uid)
  /\ lib_out' =
       [uid |-> IF lib_in.dmx_num >= DMX_NUM_MAX THEN lib_in.uid
                ELSE PortUid(lib_in.dmx_num, rdm_binding_uid'),
        binding |-> rdm_binding_uid]
  /\ lib_pc' = "done"
  /\ UNCHANGED lib_in
  /\ LibUnchanged

\* rdm_pd_emplace(destination, format, source, num, emplace_nulls)
PdEmplace ==
  /\ lib_pc = "call" /\ lib_in.fn = "pd_emplace"
  /\ lib_out' = rdm_pd_emplace(lib_in.format, lib_in.num,
                               lib_in.emplace_nulls, lib_in.source)
  /\ lib_pc' = "done"
  /\ UNCHANGED <<lib_in, rdm_binding_uid>>
  /\ LibUnchanged

\* The bytes an emplace returned are emplaced back with the same format:
\* rdm_pd_emplace(decode_buf, format, wire_buf, n, true).
PdEmplaceBack ==
  /\ lib_pc = "done" /\ lib_in.fn = "pd_emplace"
  /\ lib_out' =
       [wire |-> lib_out,
        back |-> rdm_pd_emplace(lib_in.format, lib_out.n, TRUE,
                                [bytes |-> lib_out.dest, rest |-> "count"])]
  /\ lib_pc' = "back"
  /\ UNCHANGED <<lib_in, rdm_binding_uid>>
  /\ LibUnchanged

InitLib ==
  /\ InitDriver
  /\ tn = 0
  /\ calls = [t \in Tasks |-> 0]
  /\ InitLine({{}}, FALSE)
  /\ deaf = {}
  /\ lost = 0
  /\ size = 0
  /\ uids_null = TRUE
  /\ rdm_cbs = [i \in Slots |-> FreeSlot(0)]
  /\ num_rdm_cbs = 0
  /\ pd_store = [v \in Variants |-> <<0, 0>>]
  /\ boot_loader = FALSE
  /\ p_last = NoCall
  /\ InitMem
  /\ p_ops = MaxOps
  /\ lib_pc = "call"
  /\ lib_out = <<>>
  /\ \/ /\ lib_in \in {[fn |-> "disc_response", uid |-> uid] :
                         uid \in UidSamples}
        /\ rdm_binding_uid = NullUid
     \/ /\ lib_in \in ParseInputs \cup DubInputs \cup EmplaceInputs
        /\ rdm_binding_uid = NullUid
     \/ /\ lib_in \in {[fn |-> "uid_get", dmx_num |-> dmx_num,
                        uid |-> NullUid] : dmx_num \in 0 .. DMX_NUM_MAX}
        /\ rdm_binding_uid \in BindingSamples

NextLib ==
  \/ SendDiscResponse
  \/ SendDiscUniqueBranch
  \/ ParseReceived
  \/ ParseBuffer
  \/ UidGet
  \/ PdEmplace
  \/ PdEmplaceBack

SpecLib == InitLib /\ [][NextLib]_vars

(***************************************************************************)
(* Library functions called by two tasks at once.  A task is preempted     *)
(* between any two statements, and on a target with two cores the tasks    *)
(* run at the same time; taskENTER_CRITICAL keeps every other task out of  *)
(* the sections of the same spinlock until taskEXIT_CRITICAL.              *)
(***************************************************************************)
\* What these calls leave alone.
MemUnchanged ==
  UNCHANGED <<mux, tn, sending, buffer, wire, acquired, taskVars, discVars,
              pd_store, boot_loader, p_last, p_ops, lib_pc, lib_in, lib_out>>

\* The state of everything else while only these calls are made.
InitCalls ==
  /\ InitDriver
  /\ tn = 0
  /\ calls = [t \in Tasks |-> 0]
  /\ InitLine({{}}, FALSE)
  /\ deaf = {}
  /\ lost = 0
  /\ size = 0
  /\ uids_null = TRUE
  /\ pd_store = [v \in Variants |-> <<0, 0>>]
  /\ boot_loader = FALSE
  /\ p_last = NoCall
  /\ p_ops = MaxOps
  /\ lib_pc = "off"
  /\ lib_in = <<>>
  /\ lib_out = <<>>
  /\ tpc = [t \in Tasks |-> "idle"]
  /\ local = [t \in Tasks |-> NoLocal]
  /\ spinlock = 0

Goto(t, label) == tpc' = [tpc EXCEPT ![t] = label]

\* taskENTER_CRITICAL and taskEXIT_CRITICAL
EnterCritical(t) == spinlock = 0 /\ spinlock' = t
ExitCritical(t) == spinlock = t /\ spinlock' = 0

(***************************************************************************)
(* rdm_pd_alloc: the bump allocator of the parameter data.                 *)
(***************************************************************************)
\* driver->pd_size, the bytes of the backing area driver->pd.
pd_size == Word(MaxPd)

\* The sizes asked for: nothing, a byte, all but a byte, a byte too many,
\* and sizes near SIZE_MAX.
AllocSizes ==
  {Word(0), Word(1), Word(MaxPd - 1), Word(MaxPd + 1),
   <<Half - 1, Half - 1>>, <<Half - 1, Half - 2>>}

\* b - a for a <= b.
Sub32(b, a) ==
  <<(Half + b[1] - a[1] - (IF b[2] < a[2] THEN 1 ELSE 0)) % Half,
    (Half + b[2] - a[2]) % Half>>

\* rdm_pd_alloc(dmx_num, size): size == 0 returns NULL at once.
PdAllocCall(t, sz) ==
  /\ tpc[t] = "idle"
  /\ local[t].calls < MaxAllocs
  /\ local' = [local EXCEPT ![t] =
                 [@ EXCEPT !.calls = @ + 1, !.req = sz, !.null = TRUE,
                           !.got = Word(0),
                           !.fits = /\ Leq32(pd_head, pd_size)
                                    /\ Leq32(sz, Sub32(pd_size, pd_head))]]
  /\ Goto(t, IF sz = Word(0) THEN "alloc_return" ELSE "alloc_enter")
  /\ UNCHANGED <<spinlock, pd_head, allocs, rdm_binding_uid, rdm_cbs,
                 num_rdm_cbs>>
  /\ MemUnchanged

\* taskENTER_CRITICAL(DMX_SPINLOCK(dmx_num))
PdAllocEnter(t) ==
  /\ tpc[t] = "alloc_enter"
  /\ EnterCritical(t)
  /\ local' = [local EXCEPT ![t].fits =
                 /\ Leq32(pd_head, pd_size)
                 /\ Leq32(local[t].req, Sub32(pd_size, pd_head))]
  /\ Goto(t, "alloc_test")
  /\ UNCHANGED <<pd_head, allocs, rdm_binding_uid, rdm_cbs, num_rdm_cbs>>
  /\ MemUnchanged

\* if (driver->pd_head + size <= driver->pd_size)
\*   ret = driver->pd + driver->pd_head;
PdAllocTest(t) ==
  /\ tpc[t] = "alloc_test"
  /\ IF Leq32(Add32(pd_head, local[t].req), pd_size)
     THEN /\ local' = [local EXCEPT ![t].got = pd_head, ![t].null = FALSE]
          /\ Goto(t, "alloc_bump")
     ELSE /\ Goto(t, "alloc_exit")
          /\ UNCHANGED local
  /\ UNCHANGED <<spinlock, pd_head, allocs, rdm_binding_uid, rdm_cbs,
                 num_rdm_cbs>>
  /\ MemUnchanged

\* driver->pd_head += size;
PdAllocBump(t) ==
  /\ tpc[t] = "alloc_bump"
  /\ pd_head' = Add32(pd_head, local[t].req)
  /\ allocs' = Append(allocs, [task |-> t, start |-> pd_head,
                               bytes |-> local[t].req])
  /\ Goto(t, "alloc_exit")
  /\ UNCHANGED <<local, spinlock, rdm_binding_uid, rdm_cbs, num_rdm_cbs>>
  /\ MemUnchanged

\* taskEXIT_CRITICAL(DMX_SPINLOCK(dmx_num))
PdAllocExit(t) ==
  /\ tpc[t] = "alloc_exit"
  /\ ExitCritical(t)
  /\ Goto(t, "alloc_return")
  /\ UNCHANGED <<local, pd_head, allocs, rdm_binding_uid, rdm_cbs,
                 num_rdm_cbs>>
  /\ MemUnchanged

\* return ret;
PdAllocReturn(t) ==
  /\ tpc[t] = "alloc_return"
  /\ Goto(t, "idle")
  /\ UNCHANGED <<local, spinlock, pd_head, allocs, rdm_binding_uid, rdm_cbs,
                 num_rdm_cbs>>
  /\ MemUnchanged

\* Two tasks allocate from the area of one port, up to MaxAllocs times each.
InitAlloc ==
  /\ InitCalls
  /\ rdm_binding_uid = NullUid
  /\ rdm_cbs = [i \in Slots |-> FreeSlot(0)]
  /\ num_rdm_cbs = 0
  /\ pd_head = Word(0)
  /\ allocs = <<>>

NextAlloc ==
  \E t \in Tasks :
    \/ \E sz \in AllocSizes : PdAllocCall(t, sz)
    \/ PdAllocEnter(t)
    \/ PdAllocTest(t)
    \/ PdAllocBump(t)
    \/ PdAllocExit(t)
    \/ PdAllocReturn(t)

SpecAlloc == InitAlloc /\ [][NextAlloc]_vars

(***************************************************************************)
(* rdm_uid_get, statement by statement, in a build with DMX_USE_SPINLOCK   *)
(* (a target with two cores).                                              *)
(***************************************************************************)
\* The port numbers rdm_uid_get is called with: two ports, and one too many.
UidGetPorts == {0, 1, DMX_NUM_MAX}

\* rdm_uid_get(dmx_num, uid): if (rdm_uid_is_null(&rdm_binding_uid)), read
\* outside the critical section.
UidGetCall(t, dmx_num) ==
  /\ tpc[t] = "idle"
  /\ local[t].calls < MaxGets
  /\ local' = [local EXCEPT ![t] =
                 [@ EXCEPT !.calls = @ + 1, !.dmx_num = dmx_num,
                           !.man_id = 0, !.dev_id = <<0, 0>>,
                           !.null = TRUE]]
  /\ Goto(t, IF rdm_uid_is_null(rdm_binding_uid) THEN "uid_enter"
             ELSE "uid_check")
  /\ UNCHANGED <<spinlock, pd_head, allocs, rdm_binding_uid, rdm_cbs,
                 num_rdm_cbs>>
  /\ MemUnchanged

\* taskENTER_CRITICAL(RDM_SPINLOCK)
UidGetEnter(t) ==
  /\ tpc[t] = "uid_enter"
  /\ EnterCritical(t)
  /\ Goto(t, "uid_man")
  /\ UNCHANGED <<local, pd_head, allocs, rdm_binding_uid, rdm_cbs,
                 num_rdm_cbs>>
  /\ MemUnchanged

\* rdm_binding_uid.man_id = RDM_UID_MANUFACTURER_ID;
UidGetSetManId(t) ==
  /\ tpc[t] = "uid_man"
  /\ rdm_binding_uid' =
       [rdm_binding_uid EXCEPT !.man_id = RDM_UID_MANUFACTURER_ID]
  /\ Goto(t, "uid_dev")
  /\ UNCHANGED <<local, spinlock, pd_head, allocs, rdm_cbs, num_rdm_cbs>>
  /\ MemUnchanged

\* rdm_binding_uid.dev_id = dev_id;
UidGetSetDevId(t) ==
  /\ tpc[t] = "uid_dev"
  /\ rdm_binding_uid' =
       [rdm_binding_uid EXCEPT !.dev_hi = MacDevId[1], !.dev_lo = MacDevId[2]]
  /\ Goto(t, "uid_exit")
  /\ UNCHANGED <<local, spinlock, pd_head, allocs, rdm_cbs, num_rdm_cbs>>
  /\ MemUnchanged

\* taskEXIT_CRITICAL(RDM_SPINLOCK)
UidGetExit(t) ==
  /\ tpc[t] = "uid_exit"
  /\ ExitCritical(t)
  /\ Goto(t, "uid_check")
  /\ UNCHANGED <<local, pd_head, allocs, rdm_binding_uid, rdm_cbs,
                 num_rdm_cbs>>
  /\ MemUnchanged

\* if (dmx_num >= DMX_NUM_MAX || uid == NULL) return;
\* uid->man_id = rdm_binding_uid.man_id;
UidGetCopyManId(t) ==
  /\ tpc[t] = "uid_check"
  /\ IF local[t].dmx_num >= DMX_NUM_MAX
     THEN /\ Goto(t, "uid_return")
          /\ UNCHANGED local
     ELSE /\ local' = [local EXCEPT ![t].man_id = rdm_binding_uid.man_id,
                                    ![t].null = FALSE]
          /\ Goto(t, "uid_copy")
  /\ UNCHANGED <<spinlock, pd_head, allocs, rdm_binding_uid, rdm_cbs,
                 num_rdm_cbs>>
  /\ MemUnchanged

\* uid->dev_id = rdm_binding_uid.dev_id, its last octet plus dmx_num.
UidGetCopyDevId(t) ==
  /\ tpc[t] = "uid_copy"
  /\ LET port == PortUid(local[t].dmx_num, rdm_binding_uid) IN
       local' = [local EXCEPT ![t].dev_id = <<port.dev_hi, port.dev_lo>>]
  /\ Goto(t, "uid_return")
  /\ UNCHANGED <<spinlock, pd_head, allocs, rdm_binding_uid, rdm_cbs,
                 num_rdm_cbs>>
  /\ MemUnchanged

\* rdm_uid_get has returned.
UidGetReturn(t) ==
  /\ tpc[t] = "uid_return"
  /\ Goto(t, "idle")
  /\ UNCHANGED <<local, spinlock, pd_head, allocs, rdm_binding_uid, rdm_cbs,
                 num_rdm_cbs>>
  /\ MemUnchanged

\* Two tasks make the first calls of rdm_uid_get.
InitUid ==
  /\ InitCalls
  /\ rdm_binding_uid = NullUid
  /\ rdm_cbs = [i \in Slots |-> FreeSlot(0)]
  /\ num_rdm_cbs = 0
  /\ pd_head = Word(0)
  /\ allocs = <<>>

NextUid ==
  \E t \in Tasks :
    \/ \E dmx_num \in UidGetPorts : UidGetCall(t, dmx_num)
    \/ UidGetEnter(t)
    \/ UidGetSetManId(t)
    \/ UidGetSetDevId(t)
    \/ UidGetExit(t)
    \/ UidGetCopyManId(t)
    \/ UidGetCopyDevId(t)
    \/ UidGetReturn(t)

SpecUid == InitUid /\ [][NextUid]_vars

(***************************************************************************)
(* rdm_register_parameter, statement by statement, next to rdm_pd_find.    *)
(***************************************************************************)
\* The PIDs the two tasks register and look up.
SharedPids == {1, 2}

\* The entry a registration of (pid, v) writes.
Entry(pid, v) ==
  [desc |-> Desc(pid, v), param_str |-> v, param |-> v, context |-> v,
   user_cb |-> v, driver_cb |-> v]

\* rdm_register_parameter: the loop over the table and the test for space.
\* No critical section is entered.
RegisterCall(t, pid, v) ==
  /\ tpc[t] = "idle"
  /\ local[t].calls < MaxRegs
  /\ local' = [local EXCEPT ![t] =
                 [@ EXCEPT !.calls = @ + 1, !.pid = pid, !.v = v,
                           !.i = StopsAt(pid), !.null = TRUE,
                           !.found = FALSE, !.whole = TRUE]]
  /\ Goto(t, IF HasNoSpace(StopsAt(pid)) THEN "reg_return"
             ELSE "reg_handlers")
  /\ UNCHANGED <<spinlock, pd_head, allocs, rdm_binding_uid, rdm_cbs,
                 num_rdm_cbs>>
  /\ MemUnchanged

\* driver->rdm_cbs[i].param_str = ... .driver_cb = driver_cb;
RegisterHandlers(t) ==
  /\ tpc[t] = "reg_handlers"
  /\ rdm_cbs' = [rdm_cbs EXCEPT ![local[t].i] =
                   [Entry(local[t].pid, local[t].v) EXCEPT
                      !.desc = rdm_cbs[local[t].i].desc]]
  /\ Goto(t, "reg_desc")
  /\ UNCHANGED <<local, spinlock, pd_head, allocs, rdm_binding_uid,
                 num_rdm_cbs>>
  /\ MemUnchanged

\* driver->rdm_cbs[i].desc = *desc;
RegisterDesc(t) ==
  /\ tpc[t] = "reg_desc"
  /\ rdm_cbs' = [rdm_cbs EXCEPT ![local[t].i].desc =
                   Desc(local[t].pid, local[t].v)]
  /\ Goto(t, "reg_count")
  /\ UNCHANGED <<local, spinlock, pd_head, allocs, rdm_binding_uid,
                 num_rdm_cbs>>
  /\ MemUnchanged

\* ++driver->num_rdm_cbs; return true;
RegisterCount(t) ==
  /\ tpc[t] = "reg_count"
  /\ num_rdm_cbs' = num_rdm_cbs + 1
  /\ local' = [local EXCEPT ![t].null = FALSE]
  /\ Goto(t, "reg_return")
  /\ UNCHANGED <<spinlock, pd_head, allocs, rdm_binding_uid, rdm_cbs>>
  /\ MemUnchanged

\* rdm_pd_find(dmx_num, pid): the loop over the table, all of it inside the
\* critical section of the port.
PdFind(t, pid) ==
  /\ tpc[t] = "idle"
  /\ local[t].calls < MaxRegs
  /\ spinlock = 0
  /\ LET i == StopsAt(pid) IN
       local' = [local EXCEPT ![t] =
                  [@ EXCEPT !.calls = @ + 1, !.pid = pid, !.i = i,
                            !.found = (i < num_rdm_cbs),
                            !.v = IF i < num_rdm_cbs THEN rdm_cbs[i].param
                                  ELSE 0,
                            !.whole = \A j \in 0 .. num_rdm_cbs - 1 :
                                        \E q \in SharedPids, w \in Variants :
                                          rdm_cbs[j] = Entry(q, w)]]
  /\ Goto(t, "find_return")
  /\ UNCHANGED <<spinlock, pd_head, allocs, rdm_binding_uid, rdm_cbs,
                 num_rdm_cbs>>
  /\ MemUnchanged

\* rdm_register_parameter or rdm_pd_find has returned.
TableReturn(t) ==
  /\ tpc[t] \in {"reg_return", "find_return"}
  /\ Goto(t, "idle")
  /\ UNCHANGED <<local, spinlock, pd_head, allocs, rdm_binding_uid, rdm_cbs,
                 num_rdm_cbs>>
  /\ MemUnchanged

\* Two tasks register parameters and look them up on one port.
InitRegister ==
  /\ InitCalls
  /\ rdm_binding_uid = NullUid
  /\ rdm_cbs = [i \in Slots |-> FreeSlot(0)]
  /\ num_rdm_cbs = 0
  /\ pd_head = Word(0)
  /\ allocs = <<>>

NextRegister ==
  \E t \in Tasks :
    \/ \E pid \in SharedPids, v \in Variants : RegisterCall(t, pid, v)
    \/ RegisterHandlers(t)
    \/ RegisterDesc(t)
    \/ RegisterCount(t)
    \/ \E pid \in SharedPids : PdFind(t, pid)
    \/ TableReturn(t)

SpecRegister == InitRegister /\ [][NextRegister]_vars

(***************************************************************************)
(* Claims about the request transaction.                                   *)
(***************************************************************************)
\* A call of task t that read a response and has returned.
ReadAResponse(t) == pc[t] = "done" /\ resp[t].received

\* Every check of the response validation order passes for response r to
\* request h.
ResponseMatches(h, r) ==
  /\ r.decoded
  /\ r.response_type \in {"ACK", "ACK_TIMER", "NACK_REASON", "ACK_OVERFLOW"}
  /\ r.cc = h.cc + 1
  /\ r.pid = h.pid
  /\ r.tn = h.tn
  /\ r.dest_uid = h.src_uid
  /\ \/ r.src_uid = h.dest_uid
     \/ /\ rdm_uid_is_broadcast(h.dest_uid)
        /\ h.dest_uid.man_id \in {65535, r.src_uid.man_id}

\* C1: for a request other than DISC_UNIQUE_BRANCH that received a response,
\* a response failing any check of the validation order makes the call return
\* false with ack.type = INVALID and the send-mutex released, and
\* ack.type = ACK is reported only when every check passes.
C1_InvalidResponseRejected ==
  \A t \in Tasks :
    (ReadAResponse(t) /\ ~IsDiscUniqueBranch(header[t])) =>
      /\ ~ResponseMatches(header[t], resp[t]) =>
           (ret[t] = "false" /\ ack[t].type = "INVALID" /\ mux.owner # t)
      /\ ack[t].type = "ACK" => ResponseMatches(header[t], resp[t])

\* C2: the call returns true if and only if the response was classified as
\* ACK, which takes a decoded response of type ACK; a call that read no
\* response returns false.
C2_TrueOnlyForAck ==
  \A t \in Tasks :
    pc[t] = "done" =>
      /\ ret[t] = "true" <=> ack[t].type = "ACK"
      /\ ret[t] = "true" =>
           (resp[t].received /\ resp[t].decoded
              /\ resp[t].response_type = "ACK")
      /\ ret[t] \in {"true", "false"}

C2_Witness ==
  \E t \in Tasks :
    pc[t] = "done" /\ ret[t] = "true" /\ steps[t][Len(steps[t])] = "read"

\* C3: a request that is sent is followed by a receive if and only if its
\* destination is not a broadcast UID or it is DISC_UNIQUE_BRANCH; any other
\* (broadcast) request never calls receive, waits for the send to complete
\* and returns false with ack.type = NONE and ack.err = OK.
C3_ResponseExpectation ==
  \A t \in Tasks :
    LET h == header[t]
        awaited == ~rdm_uid_is_broadcast(h.dest_uid)
                     \/ (h.cc = RDM_CC_DISC_COMMAND
                           /\ h.pid = RDM_PID_DISC_UNIQUE_BRANCH)
        called(step) == \E i \in 1..Len(steps[t]) : steps[t][i] = step
    IN /\ called("receive") => awaited
       /\ (pc[t] = "done" /\ called("send")) =>
            /\ called("receive") <=> awaited
            /\ ~awaited =>
                 /\ steps[t] = <<"take", "wait_sent", "write", "send",
                                 "wait_sent">>
                 /\ ack[t].type = "NONE" /\ ack[t].err = "DMX_OK"
                 /\ ret[t] = "false"

C3_Witness ==
  \E t \in Tasks :
    /\ pc[t] = "done"
    /\ rdm_uid_is_broadcast(header[t].dest_uid)
    /\ header[t].pid # RDM_PID_DISC_UNIQUE_BRANCH
    /\ steps[t] = <<"take", "wait_sent", "write", "send", "wait_sent">>

InTransaction ==
  {t \in Tasks : pc[t] \in {"send", "receive", "no_response", "read"}}
    \cup (IF io.stage \in {"send", "receive"} THEN {DiscTask} ELSE {})

\* C5: at most one task at a time is between writing its request and
\* finishing its receive, that task holds the send-mutex and the buffer holds
\* its request; every frame on the wire was sent by the task that wrote it,
\* and the frames are on the wire in the order of the mutex acquisitions.
C5_Serialised ==
  /\ Cardinality(InTransaction) <= 1
  /\ \A t \in InTransaction : mux.owner = t /\ buffer.task = t
  /\ \A i \in DOMAIN wire :
       /\ wire[i].task = wire[i].by
       /\ \A j \in DOMAIN wire : i < j => wire[i].acq <= wire[j].acq

C5_Witness ==
  \E i, j, k \in DOMAIN wire :
    /\ i < j /\ j < k
    /\ wire[i].task \in Tasks
    /\ wire[j].task = DiscTask
    /\ wire[k].task \in Tasks \ {wire[i].task}

\* C6: the transaction numbers of consecutive requests on the wire are
\* t, t + 1, t + 2, ... modulo 256.
C6_ConsecutiveTn ==
  \A i \in DOMAIN wire :
    i + 1 \in DOMAIN wire => wire[i + 1].tn = (wire[i].tn + 1) % 256

(***************************************************************************)
(* Claims about device discovery.                                          *)
(***************************************************************************)
\* The requests with parameter id pid that the discovery put on the wire.
OnWire(pid) ==
  Cardinality({i \in DOMAIN wire :
                 wire[i].task = DiscTask /\ wire[i].pid = pid})

\* The entries of the array that the discovery has filled.
Filled == IF uids_null THEN 0 ELSE IF found < size THEN found ELSE size
Recorded == {uids[i] : i \in 0 .. Filled - 1}

\* No answer was lost: every responder answered each DISC_UNIQUE_BRANCH for
\* its range while un-muted and honoured each DISC_MUTE.
Ideal == lost = 0

\* C7: for responders that answer DISC_UNIQUE_BRANCH while un-muted and in
\* range and honour DISC_MUTE, and an array that has room for them,
\* rdm_discover_devices returns their number, records exactly their UIDs,
\* each once, and leaves every one of them muted.
C7_DiscoveryFindsAll ==
  (disc_pc = "done" /\ Ideal /\ ~uids_null /\ Cardinality(responders) <= size)
    => /\ found = Cardinality(responders)
       /\ Recorded = responders
       /\ Cardinality(Recorded) = Filled
       /\ muted = responders

C9_ArrayBound ==
  /\ \A i \in Memory : i >= Filled => uids[i] = NoUids[i]
  /\ \A i \in Memory : i < Filled => uids[i] \in 0 .. RDM_BROADCAST_UID
  /\ Filled <= size

C9_Witness ==
  /\ disc_pc = "done" /\ ~uids_null
  /\ size > 0 /\ found > size
  /\ Cardinality(muted) = found

\* The nesting depth of rdm_find_devices.
Depth == Cardinality({i \in DOMAIN stack : stack[i].fn = "find"})

\* C10: the nesting depth of rdm_find_devices never exceeds n + 1 for the
\* n-bit space the search starts from.
C10_DepthBound == Depth <= UidBits + 1

C10_Witness == Depth = UidBits + 1 /\ Top.fn = "find" /\ Top.pc = "mute"

(***************************************************************************)
(* The parameter table.                                                    *)
(***************************************************************************)
\* C11: after any sequence of registrations the table has at most
\* RDM_RESPONDER_PIDS_MAX entries, no slot at or behind that index is read
\* or written, and a new PID registered into a full table is refused and
\* leaves the table as it was.
C11_TableBounded ==
  /\ num_rdm_cbs <= RDM_RESPONDER_PIDS_MAX
  /\ p_last.op = "register" =>
       /\ p_last.read < RDM_RESPONDER_PIDS_MAX
       /\ p_last.written < RDM_RESPONDER_PIDS_MAX
       /\ (~p_last.existed /\ p_last.num >= RDM_RESPONDER_PIDS_MAX) =>
            (~p_last.ret /\ rdm_cbs = p_last.table
             /\ num_rdm_cbs = p_last.num)

\* The PIDs a lookup finds in a table of num entries.
Findable(table, num) == {table[i].desc.pid : i \in 0 .. num - 1}

\* C12: registering a PID that is in the table overwrites its entry in
\* place: the number of entries and every other entry stay as they were,
\* and every PID that was found before is found afterwards.
C12_ReRegisterInPlace ==
  (p_last.op = "register" /\ p_last.existed /\ p_last.ret) =>
    /\ num_rdm_cbs = p_last.num
    /\ \A i \in Slots : i # p_last.written => rdm_cbs[i] = p_last.table[i]
    /\ rdm_cbs[p_last.written].desc.pid = p_last.pid
    /\ Findable(p_last.table, p_last.num) \subseteq
         Findable(rdm_cbs, num_rdm_cbs)

\* C13: a set whose persistent store fails still returns true with the
\* value in memory, and raises the boot-loader flag; the flag is raised by
\* no other set, and no set clears it.
C13_StoreFailureKeepsSet ==
  p_last.op = "set" =>
    /\ (p_last.in_memory /\ p_last.nvs /\ ~p_last.stored) =>
         (p_last.ret /\ boot_loader /\ pd_store[p_last.pd][1] = 7)
    /\ (boot_loader /\ ~p_last.flag) =>
         (p_last.ret /\ p_last.nvs /\ ~p_last.stored)
    /\ p_last.flag => boot_loader

\* A set with persistence, on a settable parameter, whose store failed and
\* raised the flag.
C13_Witness ==
  /\ p_last.op = "set" /\ p_last.in_memory /\ p_last.nvs /\ ~p_last.stored
  /\ p_last.ret /\ boot_loader /\ ~p_last.flag

(***************************************************************************)
(* The library functions.                                                  *)
(***************************************************************************)
Ran(fn) == lib_pc = "done" /\ lib_in.fn = fn

\* C14: for every UID, rdm_parse applied to the response that
\* rdm_send_disc_response writes for it (seven 0xFE, 0xAA, 12 bytes of UID,
\* 4 bytes of checksum) recovers the UID and finds the checksum valid.
C14_DiscResponseRoundTrip ==
  Ran("disc_response") =>
    /\ Len(lib_out.frame) = 24
    /\ \A i \in 1 .. 7 : lib_out.frame[i] = RDM_PREAMBLE
    /\ lib_out.frame[8] = RDM_DELIMITER
    /\ lib_out.event.branch = "disc"
    /\ lib_out.event.uid = lib_in.uid
    /\ lib_out.event.ret

\* The response of a UID of different bytes was sent and decoded.
C14_Witness ==
  /\ Ran("disc_response")
  /\ lib_in.uid = <<165, 18, 255, 0, 18, 165>>
  /\ lib_out.event.uid = lib_in.uid

\* C15: a standard frame whose message_len is above size - 2 is rejected
\* and nothing at or behind offset size is read; a frame is accepted only
\* if the sum of its first message_len bytes is the big-endian word at
\* offset message_len.
C15_TruncatedRejected ==
  (Ran("parse") /\ lib_out.event.branch = "std") =>
    /\ lib_out.event.message_len > lib_in.size - 2 => ~lib_out.event.ret
    /\ lib_out.event.top < lib_in.size
    /\ lib_out.event.ret =>
         SumTo(lib_in.data, lib_out.event.message_len) % 65536
           = Load16(lib_in.data, lib_out.event.message_len)

Example == Ran("parse") /\ lib_in.data = ExampleResponse /\ lib_in.size = 24

\* C16 (as stated): the example response decodes to the UID 0202:02020202
\* and its checksum matches.
C16_ExampleAsStated ==
  Example =>
    /\ lib_out.event.uid = <<2, 2, 2, 2, 2, 2>>
    /\ lib_out.event.ret

\* C16 (amended): the example response decodes to the UID bytes 03 03 03 03
\* FF FF, the sum over them is 0x0804, the encoded checksum is 0xFFFF, and
\* rdm_parse reports the checksum as invalid.
C16_ExampleDecoded ==
  Example =>
    /\ lib_out.event.uid = <<255, 255, 3, 3, 3, 3>>
    /\ lib_out.event.sum = 2052
    /\ lib_out.event.checksum = 65535
    /\ ~lib_out.event.ret

\* The example response went through the discovery branch of rdm_parse.
C16_Witness == Example /\ lib_out.event.branch = "disc" /\ lib_out.event.top = 23

ExampleRequest ==
  /\ lib_pc \in {"sent", "done"}
  /\ lib_in.fn = "disc_unique_branch"
  /\ lib_in.dmx_num = 1
  /\ lib_in.src = Uid(1504, 4660, 22136)
  /\ lib_in.rdm_tn = 1
  /\ lib_in.params = [lower_bound |-> NullUid,
                       upper_bound |-> Uid(32767, 65535, 65535)]

\* The bytes of the example request behind the message length.
ExampleTail ==
  <<255, 255, 255, 255, 255, 255, 5, 224, 18, 52, 86, 120, 1, 2, 0, 0, 0,
    16, 0, 1, 12, 0, 0, 0, 0, 0, 0, 127, 255, 255, 255, 255, 255>>

\* C17 (as stated): the example DISC_UNIQUE_BRANCH request is CC 01 18 ...
\* followed by the big-endian sum of the bytes before it.
C17_ExampleAsStated ==
  ExampleRequest =>
    /\ SubSeq(lib_out.frame, 1, 36) = <<204, 1, 24>> \o ExampleTail
    /\ Load16(lib_out.frame, 36) = SumTo(lib_out.frame, 36) % 65536

\* C17 (amended): the example request is CC 01 24 ..., the third byte being
\* the message length 36, followed by the big-endian sum of the 36 bytes.
C17_ExampleEncoded ==
  ExampleRequest =>
    /\ Len(lib_out.frame) = 38
    /\ SubSeq(lib_out.frame, 1, 36) = <<204, 1, 36>> \o ExampleTail
    /\ Load16(lib_out.frame, 36) = SumTo(lib_out.frame, 36) % 65536

\* The example request was written.
C17_Witness == ExampleRequest /\ lib_pc = "sent" /\ lib_out.frame[1] = RDM_SC

\* rdm_uid_get ran for a valid port.
GotUid == Ran("uid_get") /\ lib_in.dmx_num < DMX_NUM_MAX

\* What the port UID keeps of the binding UID, and that the other ports
\* get other UIDs.
KeepsUpper ==
  /\ lib_out.uid.man_id = rdm_binding_uid.man_id
  /\ lib_out.uid.dev_hi = rdm_binding_uid.dev_hi
  /\ lib_out.uid.dev_lo \div 256 = rdm_binding_uid.dev_lo \div 256
  /\ \A q \in 0 .. DMX_NUM_MAX - 1 :
       q # lib_in.dmx_num => PortUid(q, rdm_binding_uid) # lib_out.uid

\* C18 (as stated): the port UID is the binding UID with the last octet
\* XOR the port number.
C18_LastOctetXor ==
  GotUid =>
    /\ KeepsUpper
    /\ lib_out.uid.dev_lo % 256
         = BitXor(rdm_binding_uid.dev_lo % 256, lib_in.dmx_num)

\* C18 (amended): the port UID is the binding UID with the last octet plus
\* the port number modulo 256; the rest is the binding UID's, and distinct
\* ports get distinct UIDs.
C18_LastOctetPlus ==
  GotUid =>
    /\ KeepsUpper
    /\ lib_out.uid.dev_lo % 256
         = ((rdm_binding_uid.dev_lo % 256) + lib_in.dmx_num) % 256

\* A port UID whose last octet wrapped around.
C18_Witness ==
  /\ GotUid /\ lib_in.dmx_num = 2
  /\ rdm_binding_uid.dev_lo % 256 = 255 /\ lib_out.uid.dev_lo % 256 = 1

\* C19: from a binding UID that is neither null nor broadcast, the UID of
\* a valid port is neither null nor broadcast.
C19_PortUidUsable ==
  (/\ GotUid
   /\ ~rdm_uid_is_null(rdm_binding_uid)
   /\ ~rdm_uid_is_broadcast(rdm_binding_uid)) =>
    /\ ~rdm_uid_is_null(lib_out.uid)
    /\ ~rdm_uid_is_broadcast(lib_out.uid)

\* C20: rdm_pd_emplace returns at most num (at most 231), and writes
\* nothing at or behind offset num of the destination.
C20_EmplaceWithinNum ==
  Ran("pd_emplace") =>
    /\ lib_out.n <= Min(lib_in.num, 231)
    /\ lib_out.top <= Min(lib_in.num, 231)

\* The source bytes from offset n to offset n + len - 1.
SourceBytes(source, n, len) ==
  [j \in 1 .. len |-> SourceByte(source, n + j - 1)]

Scalars == {"b", "w", "d", "u"}

\* The sizes of the first k fields of a format of scalar fields.
RECURSIVE Offset(_, _)
Offset(format, k) ==
  IF k = 0 THEN 0 ELSE Offset(format, k - 1) + FieldSize(format[k])

\* The format is scalar fields and then an optional UID at k, which is its
\* last symbol or has only '$' behind it.
EndsInOptionalUid(format, k) ==
  /\ k \in 1 .. Len(format)
  /\ format[k].sym = "v"
  /\ \A j \in 1 .. k - 1 : format[j].sym \in Scalars
  /\ k = Len(format) \/ (k + 1 = Len(format) /\ format[k + 1].sym = "$")

\* C21: a format ending in an optional UID: a null UID is left out when
\* emplace_nulls is false and written as six zero bytes when it is true; a
\* UID that is not null is written as its six bytes swapped (the
\* manufacturer id as a word, the device id as a dword); a format with 'v'
\* followed by anything but a final '$' writes and returns nothing.
C21_OptionalUid ==
  Ran("pd_emplace") =>
    /\ \A k \in 1 .. Len(lib_in.format) :
         EndsInOptionalUid(lib_in.format, k) =>
           LET at == Offset(lib_in.format, k - 1)
               uid == SourceBytes(lib_in.source, at, 6)
           IN
           IF UidIsNullAt(lib_in.source, at) /\ ~lib_in.emplace_nulls
           THEN lib_out.n = at /\ Len(lib_out.dest) = at
           ELSE /\ lib_out.n = at + 6
                /\ SubSeq(lib_out.dest, at + 1, at + 6)
                     = <<uid[2], uid[1], uid[6], uid[5], uid[4], uid[3]>>
    /\ (\E k \in 1 .. Len(lib_in.format) - 1 :
          /\ lib_in.format[k].sym = "v"
          /\ lib_in.format[k + 1].sym # "$") =>
         (lib_out.n = 0 /\ lib_out.dest = <<>>)

\* "wv$" with a null UID behind the word and emplace_nulls true: the word
\* and six zero bytes were written.
C21_Witness ==
  /\ Ran("pd_emplace")
  /\ lib_in.format = <<Sym("w"), Sym("v"), Sym("$")>>
  /\ lib_in.emplace_nulls
  /\ lib_in.source = [bytes |-> <<65, 66>>, rest |-> "zero"]
  /\ lib_out.dest = <<66, 65, 0, 0, 0, 0, 0, 0>>

EmplacedBack == lib_pc = "back" /\ lib_in.fn = "pd_emplace"

\* C22: for a format of scalar fields, emplacing what an emplace returned
\* gives the bytes of the source back, and the same count; a string of up
\* to 32 characters that was emplaced without its null comes back with it.
C22_EmplaceTwice ==
  EmplacedBack =>
    /\ (\A k \in 1 .. Len(lib_in.format) :
          lib_in.format[k].sym \in Scalars) =>
         /\ lib_out.back.n = lib_out.wire.n
         /\ lib_out.back.dest
              = SourceBytes(lib_in.source, 0, lib_out.wire.n)
    /\ (/\ lib_in.format = <<Sym("a")>>
        /\ lib_in.source \in Strings
        /\ Len(lib_in.source.bytes) <= 32
        /\ ~lib_in.emplace_nulls) =>
         /\ lib_out.wire.dest = lib_in.source.bytes
         /\ lib_out.back.dest = lib_in.source.bytes \o <<0>>

\* Four parameters of a UID and a word went to wire order and back.
C22_Witness ==
  /\ EmplacedBack
  /\ lib_in.format = <<Sym("u"), Sym("w")>>
  /\ lib_in.source = [bytes |-> <<>>, rest |-> "count"]
  /\ lib_out.wire.n = 32
  /\ lib_out.wire.dest[1] = 2
  /\ lib_out.back.dest[1] = 1



(***************************************************************************)
(* Claims about what rdm_send_request reports and leaves behind.           *)
(***************************************************************************)
\* C23: a call that read a valid, matching ACK_TIMER response returns false
\* with ack.type = ACK_TIMER and ack.timer the number of ticks in (the
\* payload's 16-bit value, most significant byte first, times 10 ms); for
\* the payload 00 32 that is the number of ticks in 500 ms.
C23_AckTimer ==
  \A t \in Tasks :
    (ReadAResponse(t) /\ ResponseMatches(header[t], resp[t])
       /\ resp[t].response_type = "ACK_TIMER") =>
      /\ ret[t] = "false"
      /\ ack[t].type = "ACK_TIMER"
      /\ ack[t].timer * 1000 =
           (resp[t].pd[1] * 256 + resp[t].pd[2]) * 10 * configTICK_RATE_HZ
      /\ resp[t].pd = <<0, 50>> =>
           ack[t].timer * 1000 = 500 * configTICK_RATE_HZ

C23_Witness ==
  \E t \in Tasks :
    /\ ReadAResponse(t) /\ ResponseMatches(header[t], resp[t])
    /\ resp[t].response_type = "ACK_TIMER"
    /\ resp[t].pd = <<0, 50>>
    /\ ack[t].timer = 50

\* The driver calls the current request of task t has made include step.
Called(t, step) == \E i \in 1..Len(steps[t]) : steps[t][i] = step

\* What a call that awaited a response and did not go on to read one leaves.
ReturnedEarly(t, type) ==
  /\ ret[t] = "false"
  /\ ack[t].type = type
  /\ ~Called(t, "read") /\ ~resp[t].received
  /\ ack[t].src_uid = NullUid /\ ack[t].message_count = 0

\* C24: a call that awaited a response and received nothing (a timeout and
\* zero bytes) returns false with ack.type = NONE and ack.err the timeout; one
\* that met a bus error other than a timeout returns false with
\* ack.type = INVALID; in both cases the response is not read, and
\* ack.src_uid and ack.message_count are zero.
C24_NothingReceived ==
  \A t \in Tasks :
    (pc[t] = "done" /\ Called(t, "receive")) =>
      /\ (ack[t].err = "DMX_ERR_TIMEOUT" /\ ack[t].size = 0) =>
           ReturnedEarly(t, "NONE")
      /\ ack[t].err \notin {"DMX_OK", "DMX_ERR_TIMEOUT"} =>
           ReturnedEarly(t, "INVALID")

C24_Witness ==
  \E t, u \in Tasks :
    /\ pc[t] = "done" /\ Called(t, "receive")
    /\ ack[t].err = "DMX_ERR_TIMEOUT" /\ ack[t].size = 0
    /\ ack[t].type = "NONE"
    /\ pc[u] = "done" /\ Called(u, "receive")
    /\ ack[u].err = "DMX_ERR_DATA" /\ ack[u].size = 0
    /\ ack[u].type = "INVALID"

\* The UID of the port: the binding UID made from the MAC address, its last
\* octet advanced by the port number.
UidOfPort ==
  Uid(RDM_UID_MANUFACTURER_ID, MacDevId[1], MacDevId[2] + DMX_NUM)

\* C25: the request of a call that passed the assertions has the port's UID
\* as src_uid if the caller's was null and the caller's otherwise, port + 1
\* as port_id if the caller's was 0 and the caller's otherwise, message_count
\* 0, the port's transaction number at the call as tn, and the caller's
\* dest_uid, sub_device, cc, pid and pdl.
C25_HeaderDefaults ==
  /\ [](\A t \in Tasks :
          pc[t] \notin {"idle", "aborted"} =>
            LET h == header[t]
                s == supplied[t]
            IN /\ h.src_uid = IF s.src_uid = NullUid THEN UidOfPort
                               ELSE s.src_uid
               /\ h.port_id = IF s.port_id = 0 THEN DMX_NUM + 1
                               ELSE s.port_id
               /\ h.message_count = 0
               /\ h.dest_uid = s.dest_uid /\ h.sub_device = s.sub_device
               /\ h.cc = s.cc /\ h.pid = s.pid /\ h.pdl = s.pdl)
  /\ [][\A t \in Tasks :
          (pc[t] = "idle" /\ pc'[t] = "take") => header'[t].tn = tn]_vars

C25_Witness ==
  \E t, u \in Tasks :
    /\ pc[t] = "done" /\ Called(t, "send")
    /\ supplied[t].src_uid = UidB /\ supplied[t].port_id = 7
    /\ supplied[t].message_count = 3 /\ supplied[t].tn = 9
    /\ header[t].port_id = 7 /\ header[t].tn # 9
    /\ pc[u] = "done" /\ Called(u, "send")
    /\ supplied[u].src_uid = NullUid /\ header[u].src_uid = UidOfPort
    /\ header[u].port_id = DMX_NUM + 1

\* A header that fails the pre-validation.
FailsPreValidation(h) ==
  \/ h.dest_uid = NullUid
  \/ h.src_uid.dev_hi = 65535 /\ h.src_uid.dev_lo = 65535
  \/ h.cc \notin {RDM_CC_DISC_COMMAND, RDM_CC_GET_COMMAND, RDM_CC_SET_COMMAND}
  \/ h.sub_device >= 513 /\ h.sub_device # RDM_SUB_DEVICE_ALL
  \/ h.sub_device = RDM_SUB_DEVICE_ALL /\ h.cc = RDM_CC_GET_COMMAND
  \/ h.pdl > 231

\* C26: a call whose header fails the pre-validation takes no step after its
\* entry: it does not take the mutex, writes no frame to the buffer and sends
\* nothing, and its entry leaves the port's transaction number, the buffer,
\* the wire and the mutex as they were.
C26_InvalidNeverSent ==
  /\ [](\A t \in Tasks :
          (pc[t] # "idle" /\ FailsPreValidation(supplied[t])) =>
            pc[t] = "aborted" /\ steps[t] = <<>> /\ mux.owner # t)
  /\ [][\A t \in Tasks :
          /\ (pc[t] = "idle" /\ pc'[t] # "idle"
                /\ FailsPreValidation(supplied'[t])) =>
               UNCHANGED <<mux, tn, buffer, wire, sending, acquired>>
          /\ pc[t] = "aborted" =>
               pc'[t] = "aborted" /\ steps'[t] = <<>>]_vars

C26_Witness ==
  \E t, u \in Tasks :
    /\ pc[t] = "aborted" /\ supplied[t].pdl = 232
    /\ pc[u] = "done" /\ Len(wire) = 1 /\ wire[1].task = u

(***************************************************************************)
(* Claims about collisions in discovery and about the transaction number.  *)
(***************************************************************************)
\* C27: with responders at the adjacent UIDs 1 and 2, both answering, the
\* DISC_UNIQUE_BRANCH for the whole range collides, the range is bisected
\* and both halves are searched (three DISC_UNIQUE_BRANCHes at least), one
\* device is found in each half, two DISC_MUTEs are sent and the run returns
\* 2 UIDs.
C27_CollisionBisects ==
  (disc_pc = "done" /\ Ideal /\ responders = {1, 2}) =>
    /\ OnWire(RDM_PID_DISC_UNIQUE_BRANCH) >= 3
    /\ OnWire(RDM_PID_DISC_MUTE) = 2
    /\ found = 2

\* The port's transaction number when the i-th frame on the wire was sent:
\* every frame sent since has advanced it by one.
TnWhenSent(i) == (tn + 256 * Len(wire) - (Len(wire) - i + 1)) % 256

\* C28: every request on the wire carries the port's transaction number as
\* it was when that request was sent, and two successive requests never
\* carry the same one.
C28_TnAtSend ==
  \A i \in DOMAIN wire :
    /\ wire[i].tn = TnWhenSent(i)
    /\ i + 1 \in DOMAIN wire => wire[i + 1].tn # wire[i].tn

(***************************************************************************)
(* Claims about rdm_send_request and rdm_send together.                    *)
(***************************************************************************)
\* C29: a call that read a response which decoded, carries an allowed
\* response type and matches the request reports that response type in
\* ack.type.
C29_TypeReported ==
  \A t \in Tasks :
    (ReadAResponse(t) /\ ResponseMatches(header[t], resp[t])) =>
      ack[t].type = resp[t].response_type

\* C30: a call that took the send-mutex and has returned does not hold it.
C30_MutexReleased ==
  \A t \in Tasks :
    (pc[t] = "done" /\ Called(t, "take")) => mux.owner # t

(***************************************************************************)
(* Claims about the order of the steps of a request.                       *)
(***************************************************************************)
\* s is the sequence q or the beginning of it.
IsPrefix(s, q) == Len(s) <= Len(q) /\ s = SubSeq(q, 1, Len(s))

\* C40: the driver calls of a request come in the order take, wait_sent,
\* write, send and then, only if a response is expected, receive; the frame
\* buffer is never written while a frame is being transmitted, by a request
\* task or by the discovery; a request whose wait for the previous frame
\* times out returns false, and that step leaves the buffer and the wire
\* alone.
C40_StepOrder ==
  /\ [](\A t \in Tasks :
          /\ \/ steps[t] = <<"take_failed">>
             \/ IsPrefix(steps[t], <<"take", "wait_sent", "write", "send",
                                     "receive", "read">>)
             \/ IsPrefix(steps[t], <<"take", "wait_sent", "write", "send",
                                     "wait_sent">>)
          /\ Called(t, "receive") => response_expected[t]
          /\ (pc[t] = "done" /\ steps[t] = <<"take", "wait_sent">>) =>
               ret[t] = "false")
  /\ [][/\ buffer' # buffer => ~sending
        /\ \A t \in Tasks :
             (pc[t] = "wait_sent" /\ pc'[t] = "done") =>
               UNCHANGED <<buffer, wire, tn>>]_vars

C40_Witness ==
  \E t \in Tasks :
    /\ pc[t] = "done" /\ steps[t] = <<"take", "wait_sent">>
    /\ sending /\ buffer.task \notin {0, t}
    /\ \E i \in DOMAIN wire : wire[i].task = DiscTask

(***************************************************************************)
(* Claims about the preamble of a discovery response.                      *)
(***************************************************************************)
\* C36: rdm_parse accepts the discovery response of a UID with any number
\* from 0 to 7 of preamble bytes in front of the delimiter, the response of
\* 17 bytes without preamble included: it returns true and decodes the UID.
C36_AnyPreambleAccepted ==
  \A uid \in {<<2, 2, 2, 2, 2, 2>>, <<120, 86, 52, 18, 224, 5>>},
     k \in 0 .. 7 :
    (Ran("parse") /\ lib_in.data = Shortened(uid, k)
       /\ lib_in.size = 24 - k) =>
      /\ lib_out.event.ret
      /\ lib_out.event.branch = "disc"
      /\ lib_out.event.uid = uid

(***************************************************************************)
(* Claims about the course of a discovery run.                             *)
(***************************************************************************)
\* The frames a search that ends needs at most: one rdm_find_devices for
\* the root branch and each of its halvings, and two rdm_quick_find for each
\* responder on the line.
DepthOfSearch == UidBits + 1 + 2 * Cardinality(responders)

\* C34: rdm_discover_devices terminates for every finite set of responders:
\* a request is repeated three times at most, and the recursion of
\* rdm_find_devices and rdm_quick_find is bounded, also when a responder
\* goes on answering DISC_UNIQUE_BRANCH after the DISC_MUTEs addressed to it
\* got no response.
C34_RecursionBounded == Len(stack) <= DepthOfSearch

\* C35: a UID is recorded and counted only when the DISC_MUTE addressed to
\* it was acknowledged by a response that was received without error and
\* passed validation; a DISC_MUTE without response, or with a response that
\* fails validation, adds nothing to the count, in rdm_find_devices and in
\* rdm_quick_find alike.
C35_OnlyAcknowledged ==
  [][found' > found =>
       /\ wire[Len(wire)].pid = RDM_PID_DISC_MUTE
       /\ wire[Len(wire)].dest_uid = Top.uid
       /\ response.size > 0
       /\ response.err = "RDM_OK"]_vars

\* The positions in wire of the requests of the discovery run.
DiscFrames == {i \in DOMAIN wire : wire[i].task = DiscTask}
FirstDiscFrame == CHOOSE i \in DiscFrames : \A j \in DiscFrames : i <= j

IsSecondDiscFrame(i) ==
  /\ i # FirstDiscFrame
  /\ \A j \in DiscFrames \ {FirstDiscFrame} : i <= j

\* The un-mute is the first request of the run and the root branch the
\* second.
UnMuteThenRoot ==
  /\ (DiscFrames # {}) =>
       (/\ wire[FirstDiscFrame].pid = RDM_PID_DISC_UN_MUTE
        /\ wire[FirstDiscFrame].dest_uid = RDM_BROADCAST_UID)
  /\ \A i \in DiscFrames :
       IsSecondDiscFrame(i) =>
         (/\ wire[i].pid = RDM_PID_DISC_UNIQUE_BRANCH
          /\ wire[i].pd = <<0, RDM_MAX_UID>>)
  /\ (disc_pc \in {"finding", "done"}) => (DiscFrames # {})

\* The un-mute reads no response, and the search starts from the root with
\* the un-mute the last request sent.
UnMuteUnanswered ==
  /\ (io.pid = RDM_PID_DISC_UN_MUTE /\ io.stage = "receive"
        /\ io'.stage = "none") =>
       (response'.size = 0 /\ lost' = lost /\ muted' = {})
  /\ (disc_pc = "unmute" /\ disc_pc' = "finding") =>
       (/\ disc_params' = [lower_bound |-> 0, upper_bound |-> RDM_MAX_UID]
        /\ wire[Len(wire)].pid = RDM_PID_DISC_UN_MUTE
        /\ wire[Len(wire)].task = DiscTask)

\* C33: the first request a discovery run puts on the wire is the
\* DISC_UN_MUTE to the broadcast UID, for which no response is read; no
\* DISC_UNIQUE_BRANCH and no DISC_MUTE goes out before it, and the first
\* branch searched is the root [0, RDM_MAX_UID].
C33_UnMuteFirst == []UnMuteThenRoot /\ [][UnMuteUnanswered]_vars

C33_Witness ==
  /\ disc_pc = "done"
  /\ Cardinality(DiscFrames) >= 4
  /\ found >= 2
  /\ \E i \in DiscFrames : wire[i].pid = RDM_PID_DISC_MUTE

\* rdm_find_devices is at work on a single address.
Singleton ==
  /\ disc_pc = "finding"
  /\ stack # <<>>
  /\ Top.fn = "find"
  /\ Top.pc \in {"mute", "flip"}

\* The request at position i of wire is a DISC_MUTE to uid.
MuteOnWire(i, uid) ==
  /\ i \in DOMAIN wire
  /\ wire[i].pid = RDM_PID_DISC_MUTE
  /\ wire[i].dest_uid = uid

\* How many of the requests sent last, back from position i, are DISC_MUTEs
\* to uid.
RECURSIVE MutesBefore(_, _)
MutesBefore(i, uid) ==
  IF MuteOnWire(i, uid) THEN 1 + MutesBefore(i - 1, uid) ELSE 0

\* A single address gets no DISC_UNIQUE_BRANCH, and its DISC_MUTEs are
\* counted: three to the address at most, and the fourth to the flipped UID
\* after three without response.
SingletonCounted ==
  Singleton =>
    /\ Top.lo = Top.hi
    /\ io.pid # RDM_PID_DISC_UNIQUE_BRANCH
    /\ (Top.pc = "mute") =>
         (/\ Top.uid = Top.lo
          /\ Top.attempts <= 2
          /\ MutesBefore(Len(wire), Top.lo) <= 3
          /\ (io.stage = "none") =>
               (MutesBefore(Len(wire), Top.lo) = Top.attempts + 1))
    /\ (Top.pc = "flip") =>
         (/\ Top.uid = (Top.lo % OctetSpan) * OctetSpan + Top.lo \div OctetSpan
          /\ (io.stage = "none") =>
               (/\ MuteOnWire(Len(wire), Top.uid)
                /\ MutesBefore(Len(wire) - 1, Top.lo) >= 3
                /\ MutesBefore(Len(wire), Top.lo) <= 4))

\* The steps of rdm_find_devices on a single address: what it sends next,
\* and what it records.
SingletonSteps ==
  /\ (At("find", "start") /\ stack' # stack
        /\ disc_params.lower_bound = disc_params.upper_bound) =>
       (io' = IoMute(disc_params.lower_bound, FALSE))
  /\ (At("find", "mute") /\ stack' # stack) =>
       (IF response.size > 0
        THEN io' = io /\ stack' = Pop
        ELSE IF Top.attempts < 2
        THEN /\ io' = IoMute(Top.lo, FALSE)
             /\ stack'[Len(stack')].pc = "mute"
        ELSE /\ io'.stage = "write"
             /\ io'.pid = RDM_PID_DISC_MUTE
             /\ io'.uid # Top.lo \/ Top.lo \in {0, 5}
             /\ stack'[Len(stack')].pc = "flip")
  /\ (At("find", "flip") /\ stack' # stack) => (io' = io /\ stack' = Pop)
  /\ (Singleton /\ Len(wire') > Len(wire)) =>
       (/\ wire'[Len(wire')].pid = RDM_PID_DISC_MUTE
        /\ wire'[Len(wire')].dest_uid = Top.uid)
  /\ (Singleton /\ found' # found) =>
       (/\ response.size > 0
        /\ response.err = "RDM_OK"
        /\ MuteOnWire(Len(wire), Top.uid)
        /\ found' = found + 1
        /\ (found < size /\ ~uids_null) =>
             (uids'[found] =
                IF response.uid # 0 THEN response.uid ELSE Top.uid))

\* C32: for a branch of a single address rdm_find_devices sends DISC_MUTE to
\* the address three times at most and stops at the first response; only
\* when all three got no response it sends one more DISC_MUTE, to the
\* byte-swapped UID; it sends no DISC_UNIQUE_BRANCH; and it records a UID
\* (the binding UID if that is not zero, else the UID it muted) only when a
\* DISC_MUTE was acknowledged.
C32_SingletonMute == []SingletonCounted /\ [][SingletonSteps]_vars

C32_Witness ==
  /\ At("find", "flip")
  /\ Top.lo = 4
  /\ Top.uid = 1
  /\ response.size > 0
  /\ response.err = "RDM_OK"
  /\ MutesBefore(Len(wire) - 1, 4) = 3
  /\ found = 1

\* The last request on the wire is a DISC_UNIQUE_BRANCH for [lo, hi].
BranchOnWire(lo, hi) ==
  /\ wire # <<>>
  /\ wire[Len(wire)].pid = RDM_PID_DISC_UNIQUE_BRANCH
  /\ wire[Len(wire)].pd = <<lo, hi>>

\* The last request was a DISC_UNIQUE_BRANCH and got one valid response.
SingleResponse ==
  /\ wire # <<>>
  /\ wire[Len(wire)].pid = RDM_PID_DISC_UNIQUE_BRANCH
  /\ response.size > 0
  /\ response.err = "RDM_OK"

\* What follows a single valid response in the builds of set builds: the
\* next request is the DISC_MUTE to the UID that responded; once the
\* DISC_MUTE has a response the UID is recorded and the next request is the
\* DISC_UNIQUE_BRANCH for the same bounds; and a branch is halved only when
\* that request, asked again, ended in a collision.
MuteRecordRequery(builds) ==
  debug_discovery \in builds =>
    /\ (SingleResponse /\ io.stage = "none" /\ io'.stage = "write") =>
         (io' = IoMute(response.uid, FALSE))
    /\ (At("quick", "mute") /\ response.size > 0 /\ stack' # stack) =>
         (/\ MuteOnWire(Len(wire), Top.uid)
          /\ io' = IoDub([lower_bound |-> Top.lo, upper_bound |-> Top.hi])
          /\ found' = found + 1
          /\ (found < size /\ ~uids_null) =>
               (uids'[found] =
                  IF response.uid # 0 THEN response.uid ELSE Top.uid))
    /\ (disc_pc = "finding"
          /\ disc_params'.upper_bound < disc_params.upper_bound) =>
         (/\ BranchOnWire(disc_params.lower_bound, disc_params.upper_bound)
          /\ response.size > 0
          /\ response.err # "RDM_OK")

\* rdm_quick_find asks the branch its caller asked.
RequerySameBounds ==
  (disc_pc = "finding" /\ stack # <<>> /\ Top.fn = "quick") =>
    /\ Top.lo = disc_params.lower_bound
    /\ Top.hi = disc_params.upper_bound
    /\ (Top.pc = "dub" /\ io.stage = "none") => BranchOnWire(Top.lo, Top.hi)

InArea(a) ==
  /\ Leq32(a.start, pd_size)
  /\ Leq32(a.bytes, Sub32(pd_size, a.start))

\* C37: pd_head never exceeds pd_size; the regions the successful calls of
\* rdm_pd_alloc return, also to two tasks at once, lie in the backing area
\* and are pairwise disjoint; a call for a size that does not fit, or for
\* size 0, returns NULL.
C37_BumpAllocator ==
  /\ Leq32(pd_head, pd_size)
  /\ \A i \in DOMAIN allocs : InArea(allocs[i])
  /\ \A i, j \in DOMAIN allocs :
       i < j => Leq32(Add32(allocs[i].start, allocs[i].bytes),
                      allocs[j].start)
  /\ \A t \in Tasks :
       (tpc[t] = "alloc_return" /\ ~local[t].fits) => local[t].null

\* The binding UID once rdm_uid_get has set all of it.
SetBindingUid == Uid(RDM_UID_MANUFACTURER_ID, MacDevId[1], MacDevId[2])

\* C39: however the first calls of rdm_uid_get by two tasks interleave,
\* every call returns the UID of its port derived from the binding UID with
\* all its fields set, never from one that has the manufacturer id and not
\* yet the device id; and the binding UID, once set, is that UID and no
\* other.
C39_UidGetAtomic ==
  /\ \A t \in Tasks :
       (tpc[t] = "uid_return" /\ ~local[t].null) =>
         (Uid(local[t].man_id, local[t].dev_id[1], local[t].dev_id[2])
            = PortUid(local[t].dmx_num, SetBindingUid))
  /\ (spinlock = 0) => (rdm_binding_uid \in {NullUid, SetBindingUid})

\* pid is in the table.
Registered(pid) ==
  \E i \in 0 .. num_rdm_cbs - 1 : rdm_cbs[i].desc.pid = pid

\* C38: rdm_register_parameter changes the table in one piece as far as
\* rdm_pd_find (and with it rdm_get_parameter and rdm_set_parameter) and
\* other registrations can tell: a lookup at the same time never finds an
\* entry written in part, nor a count that covers a slot not written, and
\* of two registrations of different PIDs at the same time both PIDs end up
\* in the table.
C38_RegisterAtomic ==
  /\ \A t \in Tasks : (tpc[t] = "find_return") => local[t].whole
  /\ (/\ \A t \in Tasks : tpc[t] = "reg_return" /\ ~local[t].null
                            /\ local[t].calls = 1
      /\ local[1].pid # local[2].pid) =>
       (Registered(local[1].pid) /\ Registered(local[2].pid))

=========================================================================
